---- MODULE Spec2Model ----
(***************************************************************************)
(* Model of the trash-cleaning multi-agent simulator: the grid, the        *)
(* centralized controller (agent/astar_controller.py, AStarController) and *)
(* the decentralized controller (agent/separate_agents.py, SeparateAgents).*)
(* Points are <<x, y>>; the grid is indexed grid[x, y] as in the source,   *)
(* with x in 0..shape[0]-1 and y in 0..shape[1]-1.                         *)
(***************************************************************************)
EXTENDS Integers, Sequences, FiniteSets, TLC

VARIABLES
    ctrl,                 \* what runs: "construct" (a construction about to run), then "separate" | "astar"; or "planner" | "search" | "lookup"
    grid,                 \* the shared cell array, [Points -> cell value]
    pos,                  \* agent -> <<x, y>>  (Agent.x/.y, agent_positions)
    goal,                 \* agent -> <<x, y>> or None (Agent.goal)
    cell_types,           \* Garbage.cell_types: "trash" | "bin"
    current_trash,        \* Garbage.current_trash
    trash_capacity,       \* Garbage.trash_capacity
    garbage_pickup_count, \* AStarController.garbage_pickup_count
    garbage_to_bin,       \* AStarController.garbage_to_bin
    garbage_actions_bin,  \* AStarController.garbage_actions_bin (None until first set)
    turn,                 \* index into AgentOrder of the agent SeparateAgents.tick steps next
    fault,                \* name of the exception the last tick raised, or NoFault
    ret,                  \* what finished()/agent_locations() returned, called since the last tick
    ticked,               \* tick() has been called at least once
    pl,                   \* state of one a_star search run step by step (planner)
    sim                   \* the Simulator that drives the controller (sim/app.py), or NoSim

vars == <<ctrl, grid, pos, goal, cell_types, current_trash, trash_capacity,
          garbage_pickup_count, garbage_to_bin, garbage_actions_bin, turn,
          fault, ret, ticked, pl, sim>>

\* Python's None where a point is expected: the empty tuple, unequal to every <<x, y>>
None == <<>>

\* no exception raised
NoFault == "NoFault"

----------------------------------------------------------------------------
\* grid/grid.py: class Cell
EMPTY == 0
WETTRASH == 1
DRYTRASH == 2
DUSTY == 3
SOAKED == 6
BIN == 4
WALL == 5

CellValues == {EMPTY, WETTRASH, DRYTRASH, DUSTY, SOAKED, BIN, WALL}

\* agent/agent_manager.py: class AgentType
GARBAGE == "GARBAGE"
VACUUM == "VACUUM"
MOP == "MOP"

AgentType == {GARBAGE, MOP, VACUUM}

\* Insertion order of the locations dict built by get_start_positions, which is
\* the iteration order of SeparateAgents.agents.
AgentOrder == <<GARBAGE, VACUUM, MOP>>

\* get_start_positions(grid, randomise=False)
DefaultStart == [a \in AgentType |->
                    CASE a = GARBAGE -> <<0, 0>>
                      [] a = VACUUM  -> <<1, 0>>
                      [] a = MOP     -> <<2, 0>>]

----------------------------------------------------------------------------
\* numpy array helpers

\* grid.shape[0] and grid.shape[1]
shape0(g) == Cardinality({p[1] : p \in DOMAIN g})
shape1(g) == Cardinality({p[2] : p \in DOMAIN g})

\* An array literal s, s[x+1][y+1] being cell (x, y), as a grid.
MkGrid(s) == [p \in (0 .. Len(s) - 1) \X (0 .. Len(s[1]) - 1) |-> s[p[1] + 1][p[2] + 1]]

\* `value in grid`
InGrid(g, v) == \E p \in DOMAIN g : g[p] = v

Abs(n) == IF n < 0 THEN -n ELSE n
Max2(a, b) == IF a >= b THEN a ELSE b
Min2(a, b) == IF a <= b THEN a ELSE b
SetMax(S) == CHOOSE m \in S : \A n \in S : n <= m
SetMin(S) == CHOOSE m \in S : \A n \in S : m <= n

RECURSIVE Reverse(_)
Reverse(s) == IF s = <<>> THEN <<>> ELSE Append(Reverse(Tail(s)), Head(s))

----------------------------------------------------------------------------
\* agent/astar_controller.py

\* class Action, in definition (= iteration) order
MOVE_UP == "UP"
MOVE_DOWN == "DOWN"
MOVE_LEFT == "LEFT"
MOVE_RIGHT == "RIGHT"
Action == <<MOVE_UP, MOVE_DOWN, MOVE_LEFT, MOVE_RIGHT>>

\* the nested heuristic(current, goal) of a_star and find_closest_goal
heuristic(current, g) == Abs(current[1] - g[1]) + Abs(current[2] - g[2])

\* 0 <= x < len(grid) and 0 <= y < len(grid[0]): (x, y) is an index of the array
InBounds(g, node) == node \in DOMAIN g

\* is_valid_move that forgets the Wall test
is_valid_move_no_wall(g, node) == InBounds(g, node)

is_valid_move(g, node) == InBounds(g, node) /\ g[node] # WALL

\* apply_action that moves two cells at a time
apply_action_leap(g, node, action) ==
    LET x == node[1]
        y == node[2]
        new_position ==
            CASE action = MOVE_UP    -> <<x, y - 2>>
              [] action = MOVE_DOWN  -> <<x, y + 2>>
              [] action = MOVE_LEFT  -> <<x - 2, y>>
              [] action = MOVE_RIGHT -> <<x + 2, y>>
              [] OTHER               -> <<x, y>>
    IN IF is_valid_move(g, new_position) THEN new_position ELSE <<x, y>>

apply_action(g, node, action) ==
    LET x == node[1]
        y == node[2]
        new_position ==
            CASE action = MOVE_UP    -> <<x, y - 1>>
              [] action = MOVE_DOWN  -> <<x, y + 1>>
              [] action = MOVE_LEFT  -> <<x - 1, y>>
              [] action = MOVE_RIGHT -> <<x + 1, y>>
              [] OTHER               -> <<x, y>>
    IN IF is_valid_move(g, new_position) THEN new_position ELSE <<x, y>>

\* Order of the (priority, node) tuples held by the PriorityQueue.
TupleLess(a, b) ==
    \/ a[1] < b[1]
    \/ a[1] = b[1] /\ a[2][1] < b[2][1]
    \/ a[1] = b[1] /\ a[2][1] = b[2][1] /\ a[2][2] < b[2][2]

\* PriorityQueue.get(): the least entry
PQGet(open) == CHOOSE e \in open : \A o \in open : o = e \/ TupleLess(e, o)

\* One pass of `for action in Action` in a_star, from the i-th action on.
\* st = [open_set, g_score, came_from, puts]; puts logs the nodes handed to
\* open_set.put, in call order (history only, the code keeps no such list).
\* The state handed in is bound once (st \in {st0}) and the dictionaries are
\* updated from that value, as the loop updates them in place.
RECURSIVE a_star_expand(_, _, _, _, _)
a_star_expand(g, gl, current_node, st0, i) ==
    IF i > Len(Action) THEN st0
    ELSE CHOOSE out \in
        { LET action == Action[i]
              new_node == apply_action(g, current_node, action)
          IN IF is_valid_move(g, new_node) /\ new_node \notin DOMAIN st.g_score
             THEN LET gs == st.g_score[current_node] + 1
                      f_score == gs + heuristic(new_node, gl)
                  IN a_star_expand(g, gl, current_node,
                         [open_set  |-> st.open_set \cup {<<f_score, new_node>>},
                          g_score   |-> [n \in DOMAIN st.g_score \cup {new_node} |->
                                           IF n = new_node THEN gs ELSE st.g_score[n]],
                          came_from |-> [n \in DOMAIN st.came_from \cup {new_node} |->
                                           IF n = new_node THEN action ELSE st.came_from[n]],
                          puts      |-> Append(st.puts, new_node)],
                         i + 1)
             ELSE a_star_expand(g, gl, current_node, st, i + 1)
          : st \in {st0} } : TRUE

\* The path-building loop of a_star:
\*     while current_node in came_from:
\*         path.append(came_from[current_node]); current_node = came_from[current_node]
\* cur is [node |-> n] while current_node is a cell and [action |-> a] once it has
\* been overwritten by an Action, which is never a key of came_from.
RECURSIVE a_star_walk(_, _, _)
a_star_walk(came_from, cur, path) ==
    IF "node" \in DOMAIN cur /\ cur.node \in DOMAIN came_from
    THEN a_star_walk(came_from, [action |-> came_from[cur.node]],
                     Append(path, came_from[cur.node]))
    ELSE path

\* One iteration of the `while not open_set.empty()` loop of a_star:
\* [done |-> the function returned, path |-> what it returned, st |-> search state]
a_star_step(g, gl, st) ==
    IF st.open_set = {} THEN [done |-> TRUE, path |-> <<>>, st |-> st]
    ELSE LET e == PQGet(st.open_set)
             current_node == e[2]
             popped == [st EXCEPT !.open_set = @ \ {e}]
         IN IF current_node = gl
            THEN [done |-> TRUE,
                  path |-> Reverse(a_star_walk(st.came_from, [node |-> current_node], <<>>)),
                  st   |-> popped]
            ELSE [done |-> FALSE, path |-> <<>>,
                  st   |-> a_star_expand(g, gl, current_node, popped, 1)]

\* The `while not open_set.empty()` loop of a_star.
RECURSIVE a_star_loop(_, _, _)
a_star_loop(g, gl, st) ==
    CHOOSE path \in { IF r.done THEN r.path ELSE a_star_loop(g, gl, r.st)
                      : r \in {a_star_step(g, gl, st)} } : TRUE

a_star_init(start) ==
    [open_set  |-> {<<0, start>>},
     g_score   |-> [n \in {start} |-> 0],
     came_from |-> [n \in {} |-> MOVE_UP],
     puts      |-> <<start>>]

a_star(g, start, gl) ==
    CHOOSE path \in { a_star_loop(g, gl, st) : st \in {a_star_init(start)} } : TRUE

\* One pass of `for action in Action` in find_closest_goal, from the i-th action on.
\* st = [open_set, came_from]
RECURSIVE find_closest_goal_expand(_, _, _, _, _, _)
find_closest_goal_expand(g, start, current_cost, current_node, st0, i) ==
    IF i > Len(Action) THEN st0
    ELSE CHOOSE out \in
        { LET new_node == apply_action(g, current_node, Action[i])
          IN IF is_valid_move(g, new_node) /\ new_node \notin DOMAIN st.came_from
             THEN LET g_score == current_cost + 1
                      f_score == g_score + heuristic(new_node, start)
                  IN find_closest_goal_expand(g, start, current_cost, current_node,
                         [open_set  |-> st.open_set \cup {<<f_score, new_node>>},
                          came_from |-> [n \in DOMAIN st.came_from \cup {new_node} |->
                                           IF n = new_node THEN current_node
                                           ELSE st.came_from[n]]],
                         i + 1)
             ELSE find_closest_goal_expand(g, start, current_cost, current_node, st, i + 1)
          : st \in {st0} } : TRUE

\* The `while not open_set.empty()` loop of find_closest_goal.
RECURSIVE find_closest_goal_loop(_, _, _, _)
find_closest_goal_loop(g, start, goal_type, st) ==
    IF st.open_set = {} THEN start
    ELSE CHOOSE found \in
        { LET current_cost == e[1]
              current_node == e[2]
              popped == [st EXCEPT !.open_set = @ \ {e}]
          IN IF g[current_node] = goal_type
             THEN current_node
             ELSE CHOOSE node \in
                 { find_closest_goal_loop(g, start, goal_type, next)
                   : next \in {find_closest_goal_expand(g, start, current_cost,
                                                        current_node, popped, 1)} } : TRUE
          : e \in {PQGet(st.open_set)} } : TRUE

find_closest_goal(g, start, goal_type) ==
    find_closest_goal_loop(g, start, goal_type,
        [open_set |-> {<<0, start>>}, came_from |-> [n \in {} |-> start]])

\* The `for action in actions` loop of tick_agent: every action of the list is
\* applied to the agent's position.
RECURSIVE tick_agent_moves(_, _, _)
tick_agent_moves(g, p, actions) ==
    IF actions = <<>> THEN p
    ELSE tick_agent_moves(g, apply_action(g, p, Head(actions)), Tail(actions))

\* One of the cleaning statements of tick_agent on c = [grid, pos, count], for an
\* agent that has arrived at `at`:
\*     if agent_type == <kind> and self.grid[at] == <dirt>:
\*         self.grid[at] = <left>      (and garbage_pickup_count += <pickups>)
tick_agent_clean(c0, at, is_kind, dirt, left, pickups) ==
    CHOOSE cleaned \in
      { IF is_kind /\ c.grid[at] = dirt
        THEN [c EXCEPT !.grid = [c.grid EXCEPT ![at] = left], !.count = @ + pickups]
        ELSE c
        : c \in {c0} } : TRUE

\* tick_agent from the assignment of the final position on: the four cleaning
\* statements in the order of the source
tick_agent_at(c0, agent_type, final_position) ==
    CHOOSE left \in
      { tick_agent_clean(
          tick_agent_clean(
            tick_agent_clean(
              tick_agent_clean([c EXCEPT !.pos = [c.pos EXCEPT ![agent_type] = at]],
                               at, agent_type = VACUUM, DUSTY, EMPTY, 0),
              at, agent_type = MOP, SOAKED, EMPTY, 0),
            at, agent_type = GARBAGE, DRYTRASH, DUSTY, 1),
          at, agent_type = GARBAGE, WETTRASH, SOAKED, 1)
        : c \in {c0}, at \in {final_position} } : TRUE

\* tick_agent(agent_type, actions) on the controller state
\* c = [grid, pos, count]; returns the state it leaves.
tick_agent(c0, agent_type, actions) ==
    CHOOSE left \in
      { tick_agent_at(c, agent_type, tick_agent_moves(c.grid, c.pos[agent_type], actions))
        : c \in {c0} } : TRUE

\* The pickup count at which AStarController.tick sends the Garbage agent to a Bin.
PickupLimit == 5

\* What AStarController.tick plans before it moves anything.
astar_plan(g, p) ==
    LET garbage_start == p[GARBAGE]
        vacuum_start == p[VACUUM]
        mop_start == p[MOP]
    IN CHOOSE plan \in
        { [garbage_goal_dry    |-> garbage_goal_dry,
           garbage_goal_wet    |-> garbage_goal_wet,
           vacuum_goal         |-> vacuum_goal,
           mop_goal            |-> mop_goal,
           garbage_actions_dry |-> a_star(g, garbage_start, garbage_goal_dry),
           garbage_actions_wet |-> a_star(g, garbage_start, garbage_goal_wet),
           vacuum_actions      |-> a_star(g, vacuum_start, vacuum_goal),
           mop_actions         |-> a_star(g, mop_start, mop_goal)]
          : vacuum_goal      \in {find_closest_goal(g, vacuum_start, DUSTY)},
            mop_goal         \in {find_closest_goal(g, mop_start, SOAKED)},
            garbage_goal_dry \in {find_closest_goal(g, garbage_start, DRYTRASH)},
            garbage_goal_wet \in {find_closest_goal(g, garbage_start, WETTRASH)} } : TRUE

\* The `else` branch of AStarController.tick (pickup count below the limit):
\* the Garbage agent follows the dry or the wet plan.
astar_collect(c, plan) ==
    LET dry == plan.garbage_actions_dry
        wet == plan.garbage_actions_wet
    IN IF dry # <<>> /\ wet = <<>> THEN tick_agent(c, GARBAGE, dry)
       ELSE IF wet # <<>> /\ dry = <<>> THEN tick_agent(c, GARBAGE, wet)
       ELSE IF dry # <<>> /\ wet # <<>>
            THEN IF Len(dry) <= Len(wet) THEN tick_agent(c, GARBAGE, dry)
                 ELSE tick_agent(c, GARBAGE, wet)
       ELSE c

\* The `if self.garbage_pickup_count >= 5` branch of AStarController.tick on
\* b = [pos, count, to_bin, actions_bin]; `returned` tells whether tick returned
\* from inside the branch, before the Vacuum and the Mop were stepped.
astar_bin_trip(g, b) ==
    CHOOSE left \in {
    LET garbage_start == b.pos[GARBAGE]
        planned == a_star(g, garbage_start, garbage_goal_bin)
        to_bin1 == TRUE
        actions1 == IF ~b.to_bin THEN planned ELSE b.actions_bin
    IN IF actions1 # <<>>
       THEN LET next_action == Head(actions1)
                new_position == apply_action(g, garbage_start, next_action)
            IN IF is_valid_move(g, new_position)
               THEN [pos         |-> [b.pos EXCEPT ![GARBAGE] = new_position],
                     count       |-> IF new_position = garbage_goal_bin THEN 0 ELSE b.count,
                     to_bin      |-> IF new_position = garbage_goal_bin THEN FALSE ELSE to_bin1,
                     actions_bin |-> Tail(actions1),
                     returned    |-> TRUE]
               ELSE [pos |-> b.pos, count |-> b.count, to_bin |-> to_bin1,
                     actions_bin |-> Tail(actions1), returned |-> FALSE]
       ELSE IF garbage_start = garbage_goal_bin
            THEN [pos |-> b.pos, count |-> 0, to_bin |-> FALSE,
                  actions_bin |-> actions1, returned |-> FALSE]
            ELSE [pos |-> b.pos, count |-> b.count, to_bin |-> to_bin1,
                  actions_bin |-> actions1, returned |-> FALSE]
    : garbage_goal_bin \in {find_closest_goal(g, b.pos[GARBAGE], BIN)} } : TRUE

\* `if self.garbage_pickup_count >= 5` of AStarController.tick
astar_bin_due_late(count) == count > PickupLimit

astar_bin_due(count) == count >= PickupLimit

\* The two tick_agent calls that end AStarController.tick: the Vacuum, then the Mop
astar_cleaners(c, plan) ==
    tick_agent(tick_agent(c, VACUUM, plan.vacuum_actions), MOP, plan.mop_actions)

\* The controller's state when tick returns: what the tick_agent calls left (c0)
\* and the bin trip's fields
astar_left(c0, to_bin, actions_bin) ==
    CHOOSE left \in
      { [grid |-> c.grid, pos |-> c.pos, count |-> c.count,
         to_bin |-> to_bin, actions_bin |-> actions_bin]
        : c \in {c0} } : TRUE

\* AStarController.tick as a function of the controller's state
\* s = [grid, pos, count, to_bin, actions_bin].
astar_tick(s) ==
    CHOOSE left \in {
    LET c0 == [grid |-> s.grid, pos |-> s.pos, count |-> s.count]
        c1 == [grid |-> s.grid, pos |-> b.pos, count |-> b.count]
    IN IF astar_bin_due(s.count)
       THEN astar_left(IF b.returned THEN c1 ELSE astar_cleaners(c1, plan),
                       b.to_bin, b.actions_bin)
       ELSE astar_left(astar_cleaners(astar_collect(c0, plan), plan),
                       s.to_bin, s.actions_bin)
    : plan \in {astar_plan(s.grid, s.pos)}, b \in {astar_bin_trip(s.grid, s)} } : TRUE

----------------------------------------------------------------------------
\* agent/separate_agents.py

manhattan_distance(p1, p2) == Abs(p1[1] - p2[1]) + Abs(p1[2] - p2[2])

\* range(lo, hi) as a sequence
Range(lo, hi) == [i \in 1 .. Max2(hi - lo, 0) |-> lo + i - 1]

\* iter_manhattan_radius(x, y, grid, width): the four sides of the diamond of
\* radius `width` around (x, y), in the order the generator yields them.
iter_manhattan_radius(x, y, g, width) ==
    LET r1 == Range(Max2(0, width - x), Min2(width, y + 1))
        r2 == Range(Max2(0, width - y), Min2(width, shape0(g) - x))
        r3 == Range(Max2(0, x + width - shape0(g) + 1), Min2(width, shape1(g) - y))
        r4 == Range(Max2(0, y + width - shape1(g) + 1), Min2(width, x + 1))
    IN [k \in 1 .. Len(r1) |-> <<x - width + r1[k], y - r1[k]>>]
       \o [k \in 1 .. Len(r2) |-> <<x + r2[k], y - width + r2[k]>>]
       \o [k \in 1 .. Len(r3) |-> <<x + width - r3[k], y + r3[k]>>]
       \o [k \in 1 .. Len(r4) |-> <<x - r4[k], y + width - r4[k]>>]

RECURSIVE iter_closest_from(_, _, _, _, _)
iter_closest_from(x, y, g, width, stop) ==
    IF width >= stop THEN <<>>
    ELSE iter_manhattan_radius(x, y, g, width) \o iter_closest_from(x, y, g, width + 1, stop)

\* An iter_closest whose range of radii stops one short
iter_closest_short(x, y, g) ==
    <<<<x, y>>>> \o
    iter_closest_from(x, y, g, 1,
        Max2(x, shape0(g) - x - 1) + Max2(y, shape1(g) - y - 1))

\* iter_closest(x, y, grid): (x, y) itself, then the diamonds of growing radius.
iter_closest(x, y, g) ==
    <<<<x, y>>>> \o
    iter_closest_from(x, y, g, 1,
        Max2(x, shape0(g) - x - 1) + Max2(y, shape1(g) - y - 1) + 1)

\* The first element of a sequence of coordinates whose grid value is in `values`;
\* None when the loop falls through.
RECURSIVE first_match(_, _, _, _)
first_match(g, coords, values, i) ==
    IF i > Len(coords) THEN None
    ELSE IF g[coords[i]] \in values THEN coords[i]
    ELSE first_match(g, coords, values, i + 1)

\* Agent.find_nearest_cell(*cell_types) for an agent standing at p
find_nearest_cell(g, p, values) == first_match(g, iter_closest(p[1], p[2], g), values, 1)

\* TARGETS
TARGETS == {BIN, DRYTRASH, DUSTY, WETTRASH, SOAKED}

\* The (dx, dy) candidates of Agent.valid_moves for an agent at p
MoveOrder == <<<<0, 0>>, <<-1, 0>>, <<0, -1>>, <<1, 0>>, <<0, 1>>>>

valid_moves(g, p) ==
    {MoveOrder[i] : i \in {j \in 1 .. Len(MoveOrder) :
        /\ 0 <= p[1] + MoveOrder[j][1] /\ p[1] + MoveOrder[j][1] < shape0(g)
        /\ 0 <= p[2] + MoveOrder[j][2] /\ p[2] + MoveOrder[j][2] < shape1(g)}}

\* Agent.cell_types as a set of cell values; s is the state of the three agents:
\* [grid, pos, goal, cell_types, current_trash, trash_capacity]
agent_cell_types(s, a) ==
    CASE a = GARBAGE -> IF s.cell_types = "bin" THEN {BIN} ELSE {WETTRASH, DRYTRASH}
      [] a = VACUUM  -> {DUSTY}
      [] a = MOP     -> {SOAKED}

\* Agent.priority / Garbage.priority
priority(s, a) ==
    IF a = GARBAGE
    THEN (IF s.current_trash = s.trash_capacity THEN 1 ELSE 0) + 1
    ELSE IF s.goal[a] # None THEN 1 ELSE 0

\* agent_distances(locations, agent, test_pos), every value DOUBLED so that the
\* halved priority term stays an integer:
\*   2 * (manhattan_distance(test_pos, other.pos) - max(prio - other.prio, 0) / 2)
agent_distances(s, agent, test_pos) ==
    [other \in AgentType \ {agent} |->
        2 * manhattan_distance(test_pos, s.pos[other])
        - Max2(priority(s, agent) - priority(s, other), 0)]

FnValues(f) == {f[k] : k \in DOMAIN f}

\* best_keys(heuristic, metric) for metric = max / min
best_keys_max(h) == {k \in DOMAIN h : h[k] = SetMax(FnValues(h))}
best_keys_min(h) == {k \in DOMAIN h : h[k] = SetMin(FnValues(h))}

\* Agent.personal_space_heuristic (values doubled, as agent_distances)
personal_space_heuristic(s, a) ==
    [m \in valid_moves(s.grid, s.pos[a]) |->
        SetMin(FnValues(agent_distances(s, a,
            <<s.pos[a][1] + m[1], s.pos[a][2] + m[2]>>)))]

\* Agent.manhattan_distance_heuristic(cell)
manhattan_distance_heuristic(s, a, cell) ==
    [m \in valid_moves(s.grid, s.pos[a]) |->
        manhattan_distance(<<s.pos[a][1] + m[1], s.pos[a][2] + m[2]>>, cell)]

\* Agent.type_distance_heuristic(*cell_types): only the moves from which a cell of
\* the types is found get an entry.
type_distance_heuristic(s, a, values) ==
    LET near(m) == find_nearest_cell(s.grid,
                       <<s.pos[a][1] + m[1], s.pos[a][2] + m[2]>>, values)
    IN [m \in {v \in valid_moves(s.grid, s.pos[a]) : near(v) # None} |-> near(m)]

\* Agent.grid_cell_mask(*cell_types): the cells whose value is one of the types
grid_cell_mask(g, values) == {p \in DOMAIN g : g[p] \in values}

\* Agent.grid_distance_heuristic at cell c for an agent at p
grid_distance_heuristic(p, c) == Abs(c[1] - p[1]) + Abs(c[2] - p[2])

\* Plane geometry on lattice points. A squared distance is a rational
\* <<numerator, denominator>>.
cross(p, q, r) == (q[1] - p[1]) * (r[2] - p[2]) - (q[2] - p[2]) * (r[1] - p[1])
dot(p, q, r) == (q[1] - p[1]) * (r[1] - p[1]) + (q[2] - p[2]) * (r[2] - p[2])
dist2(p, q) == (p[1] - q[1]) * (p[1] - q[1]) + (p[2] - q[2]) * (p[2] - q[2])

RatLess(a, b) == a[1] * b[2] < b[1] * a[2]
RatMin(S) == CHOOSE m \in S : \A n \in S : ~RatLess(n, m)

\* shapely.convex_hull(MultiPoint(indices)).boundary for a mask of two cells or more:
\*  - all cells on one line: the hull is a LineString and its boundary is its two
\*    end points (hull_ends);
\*  - otherwise the hull is a Polygon and its boundary the ring of its edges
\*    (hull_edges): the segments p-q between two corners of the hull, i.e. of
\*    mask cells that have the whole mask on one side and, of the cells on their
\*    line, none outside p-q.
hull_is_line(mask) == \A p \in mask, q \in mask, r \in mask : cross(p, q, r) = 0
hull_ends(mask) ==
    {p \in mask : \A q \in mask \ {p}, r \in mask \ {p} : dot(p, q, r) > 0}
hull_edges(mask) ==
    {e \in mask \X mask :
        /\ e[1] # e[2]
        /\ \A r \in mask :
              /\ cross(e[1], e[2], r) >= 0
              /\ cross(e[1], e[2], r) = 0 =>
                    (dot(e[1], e[2], r) >= 0 /\ dot(e[2], e[1], r) >= 0)}

\* Squared distance from c to the segment p-q (shapely/GEOS point-to-segment
\* distance: an end point when the projection falls outside the segment, the
\* perpendicular distance otherwise), as the exact rational.
segment_distance2(c, p, q) ==
    IF dot(p, q, c) <= 0 THEN <<dist2(c, p), 1>>
    ELSE IF dot(p, q, c) >= dist2(p, q) THEN <<dist2(c, q), 1>>
    ELSE <<cross(p, q, c) * cross(p, q, c), dist2(p, q)>>

\* The square of boundary.distance(Point(c)) as the exact rational; zeros for a
\* mask of fewer than two cells.
convex_hull_grid_heuristic2(mask, c) ==
    IF Cardinality(mask) < 2 THEN <<0, 1>>
    ELSE IF hull_is_line(mask)
    THEN RatMin({<<dist2(c, e), 1>> : e \in hull_ends(mask)})
    ELSE RatMin({segment_distance2(c, e[1], e[2]) : e \in hull_edges(mask)})

\* The numbers find_best_cell compares are doubles: shapely computes the
\* distances in IEEE 754 binary64 and (hull_distance + 1) * grid_distance is
\* computed in it. The operators below compute these doubles digit for digit.

\* A natural number as the sequence of its digits to the base 2^14, least digit
\* first and without leading zero digits; <<>> is 0.
Radix == 2^14

RECURSIVE nat_digits(_)
nat_digits(n) == IF n = 0 THEN <<>> ELSE <<n % Radix>> \o nat_digits(n \div Radix)

RECURSIVE zero_digits(_)
zero_digits(n) == IF n = 0 THEN <<>> ELSE <<0>> \o zero_digits(n - 1)

RECURSIVE trim(_)
trim(a) ==
    IF a = <<>> THEN a
    ELSE IF a[Len(a)] # 0 THEN a
    ELSE CHOOSE r \in {trim(x) : x \in {SubSeq(a, 1, Len(a) - 1)}} : TRUE

digit(a, i) == IF i <= Len(a) THEN a[i] ELSE 0

\* a + b
nat_add_step(a, b, st) ==
    LET t == digit(a, st.i) + digit(b, st.i) + st.carry
    IN [i |-> st.i + 1, carry |-> t \div Radix, out |-> Append(st.out, t % Radix)]
RECURSIVE nat_add_loop(_, _, _)
nat_add_loop(a, b, st) ==
    IF st.i > Len(a) /\ st.i > Len(b)
    THEN IF st.carry = 0 THEN st.out ELSE Append(st.out, st.carry)
    ELSE CHOOSE r \in {nat_add_loop(a, b, n) : n \in {nat_add_step(a, b, st)}} : TRUE
nat_add(a, b) ==
    CHOOSE r \in {nat_add_loop(x, y, [i |-> 1, carry |-> 0, out |-> <<>>])
                    : x \in {a}, y \in {b}} : TRUE

\* a - b for a >= b
nat_sub_step(a, b, st) ==
    LET t == a[st.i] - digit(b, st.i) - st.borrow
    IN [i |-> st.i + 1, borrow |-> IF t < 0 THEN 1 ELSE 0,
        out |-> Append(st.out, (t + Radix) % Radix)]
RECURSIVE nat_sub_loop(_, _, _)
nat_sub_loop(a, b, st) ==
    IF st.i > Len(a) THEN trim(st.out)
    ELSE CHOOSE r \in {nat_sub_loop(a, b, n) : n \in {nat_sub_step(a, b, st)}} : TRUE
nat_sub(a, b) ==
    CHOOSE r \in {nat_sub_loop(x, y, [i |-> 1, borrow |-> 0, out |-> <<>>])
                    : x \in {a}, y \in {b}} : TRUE

\* a * k for a digit-sized k (0 <= k < 2^16)
nat_scale_step(a, k, st) ==
    LET t == a[st.i] * k + st.carry
    IN [i |-> st.i + 1, carry |-> t \div Radix, out |-> Append(st.out, t % Radix)]
RECURSIVE nat_scale_loop(_, _, _)
nat_scale_loop(a, k, st) ==
    IF st.i > Len(a) THEN st.out \o nat_digits(st.carry)
    ELSE CHOOSE r \in {nat_scale_loop(a, k, n) : n \in {nat_scale_step(a, k, st)}} : TRUE
nat_scale(a, k) ==
    IF k = 0 THEN <<>>
    ELSE CHOOSE r \in {nat_scale_loop(x, k, [i |-> 1, carry |-> 0, out |-> <<>>])
                         : x \in {a}} : TRUE

\* a * Radix^n
nat_shift_digits(a, n) ==
    CHOOSE r \in {IF x = <<>> THEN x ELSE zero_digits(n) \o x : x \in {a}} : TRUE

\* a * b
nat_mul_step(a, b, st) ==
    [i |-> st.i + 1,
     out |-> nat_add(st.out, nat_shift_digits(nat_scale(a, b[st.i]), st.i - 1))]
RECURSIVE nat_mul_loop(_, _, _)
nat_mul_loop(a, b, st) ==
    IF st.i > Len(b) THEN st.out
    ELSE CHOOSE r \in {nat_mul_loop(a, b, n) : n \in {nat_mul_step(a, b, st)}} : TRUE
nat_mul(a, b) ==
    CHOOSE r \in {nat_mul_loop(x, y, [i |-> 1, out |-> <<>>]) : x \in {a}, y \in {b}} : TRUE

\* a < b
RECURSIVE nat_less_loop(_, _, _)
nat_less_loop(a, b, i) ==
    IF i = 0 THEN FALSE
    ELSE IF a[i] # b[i] THEN a[i] < b[i]
    ELSE nat_less_loop(a, b, i - 1)
nat_less(a, b) ==
    CHOOSE r \in {IF Len(x) # Len(y) THEN Len(x) < Len(y) ELSE nat_less_loop(x, y, Len(x))
                    : x \in {a}, y \in {b}} : TRUE

\* quotient and remainder of a by a digit-sized k (0 < k < 2^16)
nat_div_step(a, k, st) ==
    LET t == st.r * Radix + a[st.i]
    IN [i |-> st.i - 1, r |-> t % k, q |-> <<t \div k>> \o st.q]
RECURSIVE nat_div_loop(_, _, _)
nat_div_loop(a, k, st) ==
    IF st.i = 0 THEN [q |-> trim(st.q), r |-> st.r]
    ELSE CHOOSE r \in {nat_div_loop(a, k, n) : n \in {nat_div_step(a, k, st)}} : TRUE
nat_div(a, k) ==
    CHOOSE r \in {nat_div_loop(x, k, [i |-> Len(x), r |-> 0, q |-> <<>>]) : x \in {a}} : TRUE

\* number of binary digits
RECURSIVE int_bits(_)
int_bits(n) == IF n = 0 THEN 0 ELSE 1 + int_bits(n \div 2)
nat_bits(a) == IF a = <<>> THEN 0 ELSE 14 * (Len(a) - 1) + int_bits(a[Len(a)])

\* a * 2^n and floor(a / 2^n)
nat_shift_left(a, n) == nat_shift_digits(nat_scale(a, 2^(n % 14)), n \div 14)
nat_shift_right(a, n) ==
    CHOOSE r \in {IF n \div 14 >= Len(x) THEN <<>>
                  ELSE nat_div(SubSeq(x, n \div 14 + 1, Len(x)), 2^(n % 14)).q
                    : x \in {a}} : TRUE

\* binary digit i of a (digit 0 is the least), and whether a has a one below digit n
nat_bit(a, i) == (digit(a, i \div 14 + 1) \div 2^(i % 14)) % 2
nat_low_bits(a, n) ==
    \/ \E i \in 1 .. n \div 14 : digit(a, i) # 0
    \/ digit(a, n \div 14 + 1) % 2^(n % 14) # 0

\* The square root of n digit by binary digit, from the largest power of 4
\* within n: [res, n] with res the floor of the root and n what is left of n
nat_sqrt_step(st) ==
    CHOOSE r \in
      { IF nat_less(st.n, t)
        THEN [n |-> st.n, res |-> half, bit |-> nat_shift_right(st.bit, 2)]
        ELSE [n |-> nat_sub(st.n, t), res |-> nat_add(half, st.bit),
              bit |-> nat_shift_right(st.bit, 2)]
        : t \in {nat_add(st.res, st.bit)}, half \in {nat_shift_right(st.res, 1)} } : TRUE
RECURSIVE nat_sqrt_loop(_)
nat_sqrt_loop(st) ==
    IF st.bit = <<>> THEN st
    ELSE CHOOSE r \in {nat_sqrt_loop(n) : n \in {nat_sqrt_step(st)}} : TRUE
nat_sqrt(n) ==
    CHOOSE r \in
      {nat_sqrt_loop([n |-> x, res |-> <<>>,
                      bit |-> IF x = <<>> THEN <<>>
                              ELSE nat_shift_left(<<1>>, 2 * ((nat_bits(x) - 1) \div 2))])
         : x \in {n}} : TRUE

\* A double (IEEE 754 binary64, away from its subnormal and infinite ends) is
\* [m, e] with the value m * 2^e, m of exactly 53 binary digits; DoubleZero is 0.0.
DoubleZero == [m |-> <<>>, e |-> 0]

\* The double nearest to v.n * 2^v.e, ties to the even m; v.inexact says that the
\* value to round lies above v.n * 2^v.e by less than 2^v.e
double_round(v) ==
    CHOOSE r \in
      { IF bits = 0 THEN DoubleZero
        ELSE IF bits <= 53
        THEN [m |-> nat_shift_left(v.n, 53 - bits), e |-> v.e - (53 - bits)]
        ELSE CHOOSE d \in
               { IF nat_bits(m) > 53
                 THEN [m |-> nat_shift_left(<<1>>, 52), e |-> v.e + (bits - 53) + 1]
                 ELSE [m |-> m, e |-> v.e + (bits - 53)]
                 : m \in {nat_add(nat_shift_right(v.n, bits - 53),
                                  IF /\ nat_bit(v.n, bits - 54) = 1
                                     /\ \/ v.inexact
                                        \/ nat_low_bits(v.n, bits - 54)
                                        \/ nat_bit(v.n, bits - 53) = 1
                                  THEN <<1>> ELSE <<>>)} } : TRUE
        : bits \in {nat_bits(v.n)} } : TRUE

\* The double an arithmetic expression evaluates to, every operation rounded:
\*   [op |-> "value", v]   the double v
\*   [op |-> "of", n]      the integer n, 0 <= n < 2^14
\*   [op |-> "div", a, b]  a / b for integers a >= 0 and 0 < b < 2^14
\*   [op |-> "sqrt", n]    sqrt(n) for an integer 0 <= n < 2^14
\*   [op |-> "mul", x, y]  x * y for expressions x and y
\*   [op |-> "add_one", x] x + 1 for an expression x
\* double_exact is the operation on the doubles of the operands before rounding.
RECURSIVE double(_)
RECURSIVE double_exact(_)
double_exact(t) ==
    CASE t.op = "value" -> [n |-> t.v.m, e |-> t.v.e, inexact |-> FALSE]
      [] t.op = "of" -> [n |-> nat_digits(t.n), e |-> 0, inexact |-> FALSE]
      [] t.op = "div" ->
           CHOOSE r \in {[n |-> d.q, e |-> 0 - 70, inexact |-> d.r # 0]
                           : d \in {nat_div(nat_shift_left(nat_digits(t.a), 70), t.b)}} : TRUE
      [] t.op = "sqrt" ->
           CHOOSE r \in {[n |-> s.res, e |-> 0 - 56, inexact |-> s.n # <<>>]
                           : s \in {nat_sqrt(nat_shift_left(nat_digits(t.n), 112))}} : TRUE
      [] t.op = "mul" ->
           CHOOSE r \in {[n |-> nat_mul(x.m, y.m), e |-> x.e + y.e, inexact |-> FALSE]
                           : x \in {double(t.x)}, y \in {double(t.y)}} : TRUE
      [] t.op = "add_one" ->
           CHOOSE r \in {IF x = DoubleZero THEN [n |-> <<1>>, e |-> 0, inexact |-> FALSE]
                         ELSE [n |-> nat_add(x.m, nat_shift_left(<<1>>, 0 - x.e)),
                               e |-> x.e, inexact |-> FALSE]
                           : x \in {double(t.x)}} : TRUE
double(t) == CHOOSE r \in {double_round(v) : v \in {double_exact(e) : e \in {t}}} : TRUE

\* x < y for doubles
double_less(x, y) ==
    CHOOSE r \in {IF b = DoubleZero THEN FALSE
                  ELSE IF a = DoubleZero THEN TRUE
                  ELSE IF a.e # b.e THEN a.e < b.e
                  ELSE nat_less(a.m, b.m)
                    : a \in {x}, b \in {y}} : TRUE

\* (sqrt(h1) + 1) * g1 < (sqrt(h2) + 1) * g2 for rationals h1, h2 >= 0 and
\* integers g1, g2 >= 0, decided in integer arithmetic: with A = g1^2 h1,
\* B = g2^2 h2 and w = g2 - g1 it is  sqrt(A) - sqrt(B) < w. L^2 and 4 A B are
\* compared digit by digit, being too large for TLC's integers on large grids.
ExactLess(h1, g1, h2, g2) ==
    LET An == g1 * g1 * h1[1] * h2[2]
        Bn == g2 * g2 * h2[1] * h1[2]
        D  == h1[2] * h2[2]
        w  == g2 - g1
        L  == An + Bn - w * w * D
        squares == [L2 |-> nat_mul(nat_digits(Abs(L)), nat_digits(Abs(L))),
                    AB |-> nat_scale(nat_mul(nat_digits(An), nat_digits(Bn)), 4)]
    IN IF w = 0 THEN An < Bn
       ELSE IF An <= Bn /\ w > 0 THEN TRUE
       ELSE IF An >= Bn /\ w < 0 THEN FALSE
       ELSE CHOOSE r \in {IF w > 0 THEN L < 0 \/ nat_less(q.L2, q.AB)
                          ELSE L > 0 /\ nat_less(q.AB, q.L2)
                            : q \in {squares}} : TRUE

\* The least of a set of doubles
DoubleMin(S) == CHOOSE m \in S : \A n \in S : ~double_less(n, m)

\* GEOS Distance::pointToSegment(c, p, q):
\*   if (p == q) return c.distance(p);
\*   r = dot / len2; if (r <= 0.0) return c.distance(p);
\*   if (r >= 1.0) return c.distance(q);
\*   s = cross / len2; return fabs(s) * sqrt(len2);
\* c.distance(p) is sqrt(dx * dx + dy * dy). The products and sums of the
\* coordinates are integers and exact; r <= 0.0 and r >= 1.0 hold for the
\* rounded quotient exactly when they hold for dot and len2.
segment_distance(c, p, q) ==
    double(IF dot(p, q, c) <= 0 THEN [op |-> "sqrt", n |-> dist2(c, p)]
           ELSE IF dot(p, q, c) >= dist2(p, q) THEN [op |-> "sqrt", n |-> dist2(c, q)]
           ELSE [op |-> "mul",
                 x |-> [op |-> "div", a |-> Abs(cross(p, q, c)), b |-> dist2(p, q)],
                 y |-> [op |-> "sqrt", n |-> dist2(p, q)]])

\* The pieces of the hull's boundary as segments, an end point e of a line being
\* the segment from e to e
hull_boundary(mask) ==
    IF hull_is_line(mask) THEN {<<e, e>> : e \in hull_ends(mask)} ELSE hull_edges(mask)

\* Agent.convex_hull_grid_heuristic at cell c: boundary.distance(Point(c)), the
\* least of the distances to the end points or to the edges; a point or edge
\* through c gives 0.0, the least there is. np.zeros for a mask of fewer than two
\* cells.
convex_hull_grid_heuristic(mask, c) ==
    IF convex_hull_grid_heuristic2(mask, c)[1] = 0 THEN DoubleZero
    ELSE DoubleMin({segment_distance(c, e[1], e[2]) : e \in hull_boundary(mask)})

\* The entry of combined = (hull_distance + 1) * + grid_distance at mask cell c
\* for an agent at p
combined(mask, p, c) ==
    double([op |-> "mul",
            x |-> [op |-> "add_one",
                   x |-> [op |-> "value", v |-> convex_hull_grid_heuristic(mask, c)]],
            y |-> [op |-> "of", n |-> grid_distance_heuristic(p, c)]])

\* The entry of `combined` at mask cell c is less than the entry at mask cell d.
\* Each double lies within 2^-50 of its size of the exact value
\* (sqrt(h) + 1) * g, and on grids of up to 8 by 8 cells two such values that
\* differ, differ by more than 2^-27 of their size; so the exact values decide
\* when they differ, and the doubles are computed and compared when the exact
\* values are equal (equal values can round to doubles that differ, 4.8 and
\* 4.800000000000001 for h = 1/25, g = 4 and h = 9/25, g = 3). Two cells on
\* the boundary with equal values have the same double, (0.0 + 1) * g.
CombinedLess(mask, p, c, d) ==
    CHOOSE r \in
      { IF ExactLess(hc, grid_distance_heuristic(p, c), hd, grid_distance_heuristic(p, d))
        THEN TRUE
        ELSE IF ExactLess(hd, grid_distance_heuristic(p, d),
                          hc, grid_distance_heuristic(p, c))
        THEN FALSE
        ELSE IF hc[1] = 0 /\ hd[1] = 0 THEN FALSE
        ELSE LET entry == [x \in {c, d} |-> combined(mask, p, x)]
             IN double_less(entry[c], entry[d])
        : hc \in {convex_hull_grid_heuristic2(mask, c)},
          hd \in {convex_hull_grid_heuristic2(mask, d)} } : TRUE

\* Position of cell c in the flattened (row-major) array
flat_index(g, c) == c[1] * shape1(g) + c[2]

\* Agent.find_best_cell(*cell_types) for an agent at p: np.argmin takes the first
\* least entry of the flattened array; cells outside the mask are set to inf.
find_best_cell(g, p, values) ==
    IF ~\E v \in values : InGrid(g, v) THEN None
    ELSE IF g[p] \in values THEN p
    ELSE LET mask == grid_cell_mask(g, values)
             first(c, d) == IF flat_index(g, c) < flat_index(g, d) THEN c ELSE d
             later(c, d) == IF flat_index(g, c) < flat_index(g, d) THEN d ELSE c
         IN CHOOSE c \in mask : \A d \in mask \ {c} :
                CombinedLess(mask, p, later(c, d), first(c, d)) <=> later(c, d) = c

\* Garbage.find_best_cell: the nearest Bin when Bin is among the cell types
garbage_find_best_cell(g, p, values) ==
    IF BIN \in values THEN find_nearest_cell(g, p, {BIN})
    ELSE find_best_cell(g, p, values)

agent_find_best_cell(s, a) ==
    IF a = GARBAGE
    THEN garbage_find_best_cell(s.grid, s.pos[a], agent_cell_types(s, a))
    ELSE find_best_cell(s.grid, s.pos[a], agent_cell_types(s, a))

\* The thresholds of the source on separations, on the doubled scale of
\* agent_distances: `> 6`, `> 0` and `>= 2`.
ComfortDistance == 6
FullGarbageClearance == 2

AttributeError == "AttributeError"
ValueError == "ValueError"

Moved(s, a, m) ==
    [s EXCEPT !.pos[a] = <<s.pos[a][1] + m[1], s.pos[a][2] + m[2]>>]

\* Agent.run_away(other_agents): the set of its possible results
\* [ran |-> returned value, s |-> state left, fault |-> exception raised or NoFault],
\* one per outcome of the random tie-break.
agent_run_away(s, a) ==
    IF s.goal[a] = None
    THEN LET personal_movements == personal_space_heuristic(s, a)
             nearest_target == find_nearest_cell(s.grid, s.pos[a],
                                   TARGETS \ agent_cell_types(s, a))
             far == SetMax(FnValues(personal_movements)) > 2 * ComfortDistance
         IN IF far /\ (nearest_target = None
                       \/ manhattan_distance(s.pos[a], nearest_target) > ComfortDistance)
            THEN {[ran |-> FALSE, s |-> s, fault |-> NoFault]}
            ELSE IF nearest_target = None
            \* target_movements is None: target_movements.items() raises
            THEN {[ran |-> FALSE, s |-> s, fault |-> AttributeError]}
            ELSE LET target_movements ==
                         manhattan_distance_heuristic(s, a, nearest_target)
                     best_personal ==
                         best_keys_max(IF far THEN target_movements
                                       ELSE personal_movements)
                     restricted == [m \in DOMAIN target_movements \cap best_personal |->
                                       target_movements[m]]
                 IN {[ran |-> TRUE, s |-> Moved(s, a, m), fault |-> NoFault] :
                        m \in best_keys_max(restricted)}
    ELSE {[ran |-> FALSE, s |-> s, fault |-> NoFault]}

\* Garbage.run_away(other_agents)
garbage_run_away(s) ==
    IF /\ s.current_trash = s.trash_capacity
       /\ SetMin(FnValues(agent_distances(s, GARBAGE, s.pos[GARBAGE])))
              >= 2 * FullGarbageClearance
    THEN {[ran |-> FALSE, s |-> s, fault |-> NoFault]}
    ELSE agent_run_away(s, GARBAGE)

run_away(s, a) == IF a = GARBAGE THEN garbage_run_away(s) ELSE agent_run_away(s, a)

\* move_closer that heads for the goal without looking at the other agents
move_closer_greedy(s, a) ==
    {[move |-> m, s |-> s, fault |-> NoFault] :
        m \in best_keys_min(manhattan_distance_heuristic(s, a, s.goal[a]))}

\* Agent.move_closer(other_agents): the set of its possible results
\* [move |-> returned (dx, dy), s |-> state left, fault |-> exception or NoFault].
move_closer(s, a) ==
    LET personal_space == personal_space_heuristic(s, a)
        closer_moves == manhattan_distance_heuristic(s, a, s.goal[a])
    IN IF SetMin(FnValues(personal_space)) > 0
       THEN LET best_moves == best_keys_min(closer_moves)
                restricted == [m \in DOMAIN personal_space \cap best_moves |->
                                  personal_space[m]]
            IN {[move |-> m, s |-> s, fault |-> NoFault] : m \in best_keys_max(restricted)}
       ELSE LET best_moves == best_keys_max(personal_space)
                closest_trash == type_distance_heuristic(s, a, agent_cell_types(s, a))
                move_distances ==
                    [m \in DOMAIN closest_trash \cap best_moves |->
                        manhattan_distance(<<m[1] + s.pos[a][1], m[2] + s.pos[a][2]>>,
                                           closest_trash[m])]
                cleared == [s EXCEPT !.goal[a] = None]
            IN IF DOMAIN move_distances = {}
               \* best_key(move_distances, min): min() of an empty sequence
               THEN {[move |-> <<0, 0>>, s |-> s, fault |-> ValueError]}
               ELSE IF Cardinality(best_moves) = 1
               THEN {[move |-> m, s |-> cleared, fault |-> NoFault] : m \in best_moves}
               ELSE {[move |-> m, s |-> cleared, fault |-> NoFault] :
                        m \in best_keys_min(move_distances)}

\* Agent.clean_up(): the cell under the agent becomes Empty unless Wall or Bin
agent_clean_up(s, a) ==
    IF s.grid[s.pos[a]] \notin {WALL, BIN}
    THEN [s EXCEPT !.grid[s.pos[a]] = EMPTY]
    ELSE s

\* Garbage.clean_up() that empties the cell it unloads on
garbage_clean_up_overwrites(s) ==
    LET p == s.pos[GARBAGE]
    IN IF s.grid[p] = BIN
       THEN [s EXCEPT !.current_trash = 0, !.cell_types = "trash", !.grid[p] = EMPTY]
       ELSE IF s.grid[p] \in {WETTRASH, DRYTRASH}
       THEN [s EXCEPT !.current_trash = @ + 1,
                      !.cell_types = IF s.current_trash + 1 = s.trash_capacity
                                     THEN "bin" ELSE @,
                      !.grid[p] = IF s.grid[p] = WETTRASH THEN SOAKED ELSE DUSTY]
       ELSE s

\* Garbage.clean_up() that leaves the residue of the other kind of trash
garbage_clean_up_swapped(s) ==
    LET p == s.pos[GARBAGE]
    IN IF s.grid[p] = BIN
       THEN [s EXCEPT !.current_trash = 0, !.cell_types = "trash"]
       ELSE IF s.grid[p] \in {WETTRASH, DRYTRASH}
       THEN [s EXCEPT !.current_trash = @ + 1,
                      !.cell_types = IF s.current_trash + 1 = s.trash_capacity
                                     THEN "bin" ELSE @,
                      !.grid[p] = IF s.grid[p] = WETTRASH THEN DUSTY ELSE SOAKED]
       ELSE s

\* Garbage.clean_up()
garbage_clean_up(s) ==
    LET p == s.pos[GARBAGE]
    IN IF s.grid[p] = BIN
       THEN [s EXCEPT !.current_trash = 0, !.cell_types = "trash"]
       ELSE IF s.grid[p] \in {WETTRASH, DRYTRASH}
       THEN [s EXCEPT !.current_trash = @ + 1,
                      !.cell_types = IF s.current_trash + 1 = s.trash_capacity
                                     THEN "bin" ELSE @,
                      !.grid[p] = IF s.grid[p] = WETTRASH THEN SOAKED ELSE DUSTY]
       ELSE s

\* clean_up() without the override of Garbage: every agent runs Agent.clean_up
clean_up_untyped(s, a) == agent_clean_up(s, a)

\* self.clean_up(): Garbage overrides it
clean_up(s, a) == IF a = GARBAGE THEN garbage_clean_up(s) ELSE agent_clean_up(s, a)

\* The tail of Agent.tick once move_closer has returned a move
agent_tick_move(r, a) ==
    LET s1 == Moved(r.s, a, r.move)
    IN IF s1.pos[a] = s1.goal[a]
       THEN [s |-> [clean_up(s1, a) EXCEPT !.goal[a] = None], fault |-> NoFault]
       ELSE [s |-> s1, fault |-> NoFault]

\* Agent.tick(other_agents): the set of possible [s, fault] it can leave
agent_tick(s, a) ==
    LET s1 == [s EXCEPT !.goal[a] = IF @ # None THEN @ ELSE agent_find_best_cell(s, a)]
        after_run(r) ==
            IF r.fault # NoFault THEN {[s |-> r.s, fault |-> r.fault]}
            ELSE IF r.ran \/ r.s.goal[a] = None THEN {[s |-> r.s, fault |-> NoFault]}
            ELSE {IF m.fault # NoFault THEN [s |-> m.s, fault |-> m.fault]
                  ELSE agent_tick_move(m, a) : m \in move_closer(r.s, a)}
    IN UNION {after_run(r) : r \in run_away(s1, a)}

\* Garbage.tick(other_agents): switch to the Bin when no trash is left and some
\* is carried, then Agent.tick
garbage_tick(s) ==
    LET s1 == IF /\ ~InGrid(s.grid, WETTRASH) /\ ~InGrid(s.grid, DRYTRASH)
                 /\ s.current_trash # 0
              THEN [s EXCEPT !.cell_types = "bin"] ELSE s
    IN agent_tick(s1, GARBAGE)

\* SeparateAgents.finished()
separate_finished(s) ==
    ~\E a \in AgentType :
        \/ s.goal[a] # None
        \/ a = GARBAGE /\ s.current_trash > 0

----------------------------------------------------------------------------
\* The state machine

\* The grids the runs start from, as array literals s[x+1][y+1].
GridMixed ==
    MkGrid(<< <<BIN, DRYTRASH, WETTRASH>>,
              <<EMPTY, DUSTY, DRYTRASH>>,
              <<SOAKED, EMPTY, EMPTY>> >>)
GridWalled ==
    MkGrid(<< <<EMPTY, WALL, DRYTRASH>>,
              <<EMPTY, WETTRASH, EMPTY>>,
              <<EMPTY, EMPTY, BIN>> >>)
GridResidue ==
    MkGrid(<< <<EMPTY, DUSTY, EMPTY>>,
              <<BIN, EMPTY, EMPTY>>,
              <<EMPTY, SOAKED, EMPTY>> >>)
GridNoBin ==
    MkGrid(<< <<EMPTY, DRYTRASH>>,
              <<EMPTY, EMPTY>>,
              <<EMPTY, EMPTY>> >>)
GridTrashy ==
    MkGrid(<< <<BIN, DRYTRASH, WETTRASH>>,
              <<DRYTRASH, EMPTY, DRYTRASH>>,
              <<WETTRASH, DRYTRASH, EMPTY>> >>)
GridCorridor ==
    MkGrid(<< <<BIN>>, <<EMPTY>>, <<EMPTY>>, <<DUSTY>>, <<EMPTY>>,
              <<EMPTY>>, <<EMPTY>>, <<EMPTY>>, <<DRYTRASH>> >>)

\* A grid that holds more trash than a Garbage agent of the default capacity
\* carries
GridHeap ==
    MkGrid(<< <<BIN, DRYTRASH, DRYTRASH, DRYTRASH>>,
              <<EMPTY, DRYTRASH, DRYTRASH, DRYTRASH>>,
              <<EMPTY, DRYTRASH, DRYTRASH, DRYTRASH>>,
              <<DRYTRASH, DRYTRASH, EMPTY, EMPTY>> >>)

Grids == {GridMixed, GridWalled, GridResidue, GridNoBin}
SeparateGrids == Grids \cup {GridCorridor}
AStarGrids == Grids \cup {GridTrashy}

\* Pairwise-distinct start cells, none of them a Wall.
StartPositions(g) ==
    {p \in [AgentType -> DOMAIN g] :
        /\ p[GARBAGE] # p[VACUUM] /\ p[GARBAGE] # p[MOP] /\ p[VACUUM] # p[MOP]
        /\ \A a \in AgentType : g[p[a]] # WALL}

\* capacity: int = 10 of Garbage.__init__; SeparateAgents.__init__ passes none
DefaultCapacity == 10

NoCall == [call |-> "none", value |-> "none"]
NoPlanner == [done |-> TRUE]

\* no Simulator: the controller's methods are called directly
NoSim == [on |-> FALSE, edits |-> 0]

\* Construction as the source writes it. A call binds its positional
\* arguments to the parameters of the initialiser; none of the parameters below
\* has a default.
TypeError == "TypeError"
ImportError == "ImportError"
IndexError == "IndexError"
ZeroDivisionError == "ZeroDivisionError"

\* The modules of the repository that module m imports names from at its top,
\* in the order of its import statements
ModuleImports(m) ==
    CASE m = "main" -> <<"sim.app", "agent.separate_agents", "agent.astar_controller">>
      [] m = "sim.app" -> <<"agent.agent_manager", "grid.grid", "sim.print">>
      [] m = "agent.agent_manager" -> <<"grid.grid">>
      [] m = "grid.grid" -> <<"agent.agent_manager">>
      [] m = "agent.separate_agents" -> <<"agent.agent_manager", "grid.grid", "sim.print">>
      [] m = "agent.astar_controller" -> <<"agent.agent_manager", "grid.grid", "sim.print">>
      [] m = "sim.print" -> <<>>

\* import of module m while the modules of `loading` are being executed. Every
\* `from x import names` of the source stands above the definitions of its own
\* module, so a module that is imported while it is loading has none of the
\* names asked of it: ImportError.
RECURSIVE import_module(_, _)
RECURSIVE import_all(_, _)
import_all(ms, loading) ==
    IF ms = <<>> THEN NoFault
    ELSE LET r == import_module(Head(ms), loading)
         IN IF r # NoFault THEN r ELSE import_all(Tail(ms), loading)
import_module(m, loading) ==
    IF m \in loading THEN ImportError ELSE import_all(ModuleImports(m), loading \cup {m})

\* The module a call site lives in or takes its class from
SiteModule(site, Manager) ==
    CASE site = "main" -> "main"
      [] site = "Simulator" -> "sim.app"
      [] site = "Manager" /\ Manager = "SeparateAgents" -> "agent.separate_agents"
      [] site = "Manager" /\ Manager = "AStarController" -> "agent.astar_controller"

\* The parameters after self of the __init__ of a class, and the parameters
\* of create_dynamic_grid
init_parameters(class) ==
    CASE class = "AgentManager"    -> <<"grid", "locations", "garbage_capacity">>
      [] class = "create_dynamic_grid" -> <<"rows", "columns">>
      [] class = "SeparateAgents"  -> <<"grid", "locations">>
      [] class = "AStarController" -> <<"grid", "locations">>
      [] class = "Simulator"       -> <<"rows", "cols", "Manager", "scale_factor", "speed",
                                        "rng_seed", "grid_fill", "grid_garbage_proportion",
                                        "grid_bins", "tests", "random_start">>

\* The positional arguments of the calls of the source
call_arguments(site) ==
    CASE site = "main"      -> <<"args.rows", "args.columns", "Manager", "args.scale",
                                 "args.delta", "args.seed", "args.fill", "args.garbage",
                                 "args.bins", "args.tests", "args.random_start",
                                 "args.garbage_capacity">>
      [] site = "Simulator" -> <<"self.grid", "get_start_positions">>
      [] site = "regenerate_grid" -> <<"cols", "rows", "grid_fill",
                                       "grid_garbage_proportion", "grid_bins">>
      [] site = "super"     -> <<"grid", "locations">>

\* What a construction is run in. "source": the files as they stand. "loaded":
\* the modules of the source in place, the cycle of imports between
\* agent.agent_manager and grid.grid broken from outside. "accepting": the
\* modules in place, a base initialiser that takes the call of its subclasses
\* and a grid constructor that takes the call of the Simulator. Only an
\* "accepting" process ever holds a manager; the source as it stands and the
\* loaded source raise before one exists.
Processes == {"source", "loaded", "accepting"}

\* The parameters of a base initialiser that takes super().__init__(grid,
\* locations), the call SeparateAgents and AStarController are written with
accepting_parameters == <<"grid", "locations">>

\* The parameters of a grid constructor that takes the five arguments the
\* Simulator calls create_dynamic_grid with
accepting_grid_parameters ==
    <<"rows", "cols", "fill", "garbage_proportion", "bins">>

\* The parameters of the create_dynamic_grid of a process
grid_parameters(process) ==
    IF process = "accepting" THEN accepting_grid_parameters
    ELSE init_parameters("create_dynamic_grid")

\* The parameters of the AgentManager.__init__ of a process
base_parameters(process) ==
    IF process = "accepting" THEN accepting_parameters ELSE init_parameters("AgentManager")

\* The import of module m in a process
load(process, m) == IF process = "source" THEN import_module(m, {}) ELSE NoFault

\* A call with the given positional arguments of an initialiser with the given
\* parameters: an argument too many or too few raises TypeError before the
\* body runs
bind_arguments(parameters, arguments) ==
    IF Len(arguments) = Len(parameters) THEN NoFault ELSE TypeError

\* Manager(grid, locations): SeparateAgents.__init__ and
\* AStarController.__init__ start with super().__init__(grid, locations)
manager_init(Manager, process) ==
    IF bind_arguments(init_parameters(Manager), call_arguments("Simulator")) # NoFault
    THEN TypeError
    ELSE bind_arguments(base_parameters(process), call_arguments("super"))

\* get_start_positions(grid, randomise): the location maps it can return. With
\* randomise it draws a Bin cell for the Garbage agent, a Soaked cell for the
\* Vacuum agent and a Dusty cell for the Mop agent with choice(); on a grid that
\* lacks one of the three, choice() of the empty list raises IndexError, and
\* the set below is empty.
get_start_positions(g, randomise) ==
    IF randomise
    THEN {[a \in AgentType |-> IF a = GARBAGE THEN b ELSE IF a = VACUUM THEN w ELSE d] :
             b \in {p \in DOMAIN g : g[p] = BIN},
             w \in {p \in DOMAIN g : g[p] = SOAKED},
             d \in {p \in DOMAIN g : g[p] = DUSTY}}
    ELSE {DefaultStart}

\* self.agents = self.Manager(self.grid, get_start_positions(self.grid,
\* self.randomise_start_positions)) on the grid g: the argument is evaluated
\* before the manager is called
build_agents(Manager, process, g, randomise) ==
    IF get_start_positions(g, randomise) = {} THEN IndexError
    ELSE manager_init(Manager, process)

\* Simulator.__init__ of the call, g the grid its create_dynamic_grid returns:
\* it makes the grid (self.regenerate_grid()) and then builds the manager on
\* the locations of get_start_positions before it returns
simulator_init(call, arguments, g) ==
    IF bind_arguments(init_parameters("Simulator"), arguments) # NoFault THEN TypeError
    ELSE IF bind_arguments(grid_parameters(call.process),
                           call_arguments("regenerate_grid")) # NoFault
    THEN TypeError
    ELSE build_agents(call.Manager, call.process, g, call.random_start)

\* The exception the construction of the call ends with, or NoFault when it
\* returns: the module is imported, then the call of the site runs
construct(call, g) ==
    IF load(call.process, SiteModule(call.site, call.Manager)) # NoFault
    THEN load(call.process, SiteModule(call.site, call.Manager))
    ELSE CASE call.site = "main" -> simulator_init(call, call_arguments("main"), g)
           [] call.site = "Simulator" ->
                 simulator_init(call, init_parameters("Simulator"), g)
           [] call.site = "Manager" -> manager_init(call.Manager, call.process)

\* Values of the `tests` argument the Simulator is built with
TestCounts == {0, 2}

\* The calls Manager(grid, locations) of a manager class, one per process
ManagerCalls(Manager) ==
    {[done |-> FALSE, site |-> "Manager", Manager |-> Manager, process |-> e] :
        e \in Processes}

\* Largest `scale_factor` argument the Simulator is built with
MaxScale == 2

\* Values of the `scale_factor` argument (main: --scale, an int)
ScaleFactors == 1..MaxScale

\* The calls of Simulator made from the site (main's call, or a call with one
\* argument per parameter), for either manager class
SimulatorCalls(site) ==
    {[done |-> FALSE, site |-> site, Manager |-> M, process |-> e, tests |-> t,
      random_start |-> r, scale_factor |-> f] :
        M \in {"SeparateAgents", "AStarController"}, e \in Processes,
        t \in TestCounts, r \in BOOLEAN, f \in ScaleFactors}

\* A construction about to run: the call, and the grid and the locations the
\* manager is to be built on. No manager and no Simulator exists yet. A call of
\* Simulator draws the locations itself while it runs; until then pos holds the
\* cells of get_start_positions(grid, False).
Pending(call, g, p) ==
    /\ ctrl = "construct"
    /\ pl = call
    /\ grid = g
    /\ pos = p
    /\ goal = [a \in AgentType |-> None]
    /\ cell_types = "trash"
    /\ current_trash = 0
    /\ trash_capacity = DefaultCapacity
    /\ garbage_pickup_count = 0
    /\ garbage_to_bin = FALSE
    /\ garbage_actions_bin = <<>>
    /\ turn = 1
    /\ fault = NoFault
    /\ ret = NoCall
    /\ ticked = FALSE
    /\ sim = NoSim

\* The pending construction runs. When it raises, no object is built and nothing
\* can be called. When it returns, the body of the initialiser has assigned the
\* fields: SeparateAgents.__init__ one agent per location, the Garbage agent
\* built as Garbage(grid, x, y), i.e. with the default capacity;
\* AStarController.__init__ the positions and the pickup counters;
\* Simulator.__init__ its own fields around the manager, which it builds on the
\* locations of get_start_positions; cols and rows are those its grid was made
\* with, create_dynamic_grid(cols, rows, ...). sim.start is the grid and the
\* locations the seed of the run gives (seed(self.seed) precedes both).
Construct ==
    /\ ctrl = "construct"
    /\ ~pl.done
    /\ IF construct(pl, grid) # NoFault
       THEN /\ fault' = construct(pl, grid)
            /\ pl' = [pl EXCEPT !.done = TRUE]
            /\ UNCHANGED <<ctrl, grid, pos, goal, cell_types, current_trash,
                           trash_capacity, garbage_pickup_count, garbage_to_bin,
                           garbage_actions_bin, turn, ret, ticked, sim>>
       ELSE /\ ctrl' = IF pl.Manager = "SeparateAgents" THEN "separate" ELSE "astar"
            /\ goal' = [a \in AgentType |-> None]
            /\ cell_types' = "trash"
            /\ current_trash' = 0
            /\ trash_capacity' = IF pl.Manager = "SeparateAgents" THEN DefaultCapacity
                                 ELSE PickupLimit
            /\ garbage_pickup_count' = 0
            /\ garbage_to_bin' = FALSE
            /\ garbage_actions_bin' = <<>>
            /\ turn' = 1
            /\ fault' = NoFault
            /\ ret' = NoCall
            /\ ticked' = FALSE
            /\ pl' = NoPlanner
            /\ IF pl.site = "Simulator"
               THEN \E p \in get_start_positions(grid, pl.random_start) :
                       /\ pos' = p
                       /\ sim' = [on |-> TRUE, edits |-> 0, ticks |-> 0,
                                  paused |-> (pl.tests = 0), num_tests |-> pl.tests,
                                  results |-> 0, recorded |-> FALSE,
                                  random_start |-> pl.random_start,
                                  cols |-> shape0(grid), rows |-> shape1(grid),
                                  scale_factor |-> pl.scale_factor,
                                  original_scale_factor |-> pl.scale_factor,
                                  start |-> [grid |-> grid, pos |-> p],
                                  raised |-> FALSE, log |-> {}, end |-> "running",
                                  agents_finished |-> FALSE, dirty |-> FALSE]
               ELSE /\ pos' = pos
                    /\ sim' = NoSim
            /\ UNCHANGED grid

\* Start cells in the column y = 0 of the grid, where get_start_positions(grid,
\* False) puts the agents
EdgeStartPositions(g) == {p \in StartPositions(g) : \A a \in AgentType : p[a][2] = 0}

\* The call SeparateAgents(grid, locations) on the small grids with the agents
\* on any cells, and on GridHeap with the agents on cells of the column y = 0
SeparateInit ==
    \E call \in ManagerCalls("SeparateAgents") :
       \/ \E g \in SeparateGrids : \E p \in StartPositions(g) : Pending(call, g, p)
       \/ \E p \in EdgeStartPositions(GridHeap) : Pending(call, GridHeap, p)

\* The agents' state as the record the operators of separate_agents.py work on
SepState ==
    [grid |-> grid, pos |-> pos, goal |-> goal, cell_types |-> cell_types,
     current_trash |-> current_trash, trash_capacity |-> trash_capacity]

\* One iteration of the loop of SeparateAgents.tick: agent AgentOrder[turn] ticks.
\* An exception leaves the loop; the next tick() starts again at the first agent.
SepStep(a, outcomes) ==
    /\ ctrl = "separate"
    /\ AgentOrder[turn] = a
    /\ \E o \in outcomes :
        /\ grid' = o.s.grid
        /\ pos' = o.s.pos
        /\ goal' = o.s.goal
        /\ cell_types' = o.s.cell_types
        /\ current_trash' = o.s.current_trash
        /\ fault' = o.fault
        /\ turn' = IF o.fault # NoFault THEN 1 ELSE (turn % Len(AgentOrder)) + 1
    /\ ret' = NoCall
    /\ ticked' = TRUE
    /\ UNCHANGED <<ctrl, trash_capacity, garbage_pickup_count, garbage_to_bin,
                   garbage_actions_bin, pl, sim>>

GarbageTick == SepStep(GARBAGE, garbage_tick(SepState))
VacuumTick == SepStep(VACUUM, agent_tick(SepState, VACUUM))
MopTick == SepStep(MOP, agent_tick(SepState, MOP))

\* A finished() that drops the agents' goals while answering
SeparateFinishedForgetful ==
    /\ ctrl = "separate"
    /\ turn = 1
    /\ ret' = [call |-> "finished",
               value |-> IF separate_finished(SepState) THEN "True" ELSE "False"]
    /\ goal' = [a \in AgentType |-> None]
    /\ UNCHANGED <<ctrl, grid, pos, cell_types, current_trash, trash_capacity,
                   garbage_pickup_count, garbage_to_bin, garbage_actions_bin, turn,
                   fault, ticked, pl, sim>>

\* A call of SeparateAgents.finished() between two ticks
SeparateFinished ==
    /\ ctrl = "separate"
    /\ turn = 1
    /\ ret' = [call |-> "finished",
               value |-> IF separate_finished(SepState) THEN "True" ELSE "False"]
    /\ UNCHANGED <<ctrl, grid, pos, goal, cell_types, current_trash, trash_capacity,
                   garbage_pickup_count, garbage_to_bin, garbage_actions_bin, turn,
                   fault, ticked, pl, sim>>

\* A call of SeparateAgents.agent_locations() between two ticks
SeparateAgentLocations ==
    /\ ctrl = "separate"
    /\ turn = 1
    /\ ret' = [call |-> "agent_locations", value |-> [a \in AgentType |-> pos[a]]]
    /\ UNCHANGED <<ctrl, grid, pos, goal, cell_types, current_trash, trash_capacity,
                   garbage_pickup_count, garbage_to_bin, garbage_actions_bin, turn,
                   fault, ticked, pl, sim>>

SeparateNext ==
    \/ Construct
    \/ GarbageTick
    \/ VacuumTick
    \/ MopTick
    \/ SeparateFinished
    \/ SeparateAgentLocations

SeparateSpec == SeparateInit /\ [][SeparateNext]_vars

\* The call AStarController(grid, locations)
AStarInit ==
    \E call \in ManagerCalls("AStarController") :
       \E g \in AStarGrids : \E p \in StartPositions(g) : Pending(call, g, p)

\* The controller's state as the record astar_tick works on
AStarState ==
    [grid |-> grid, pos |-> pos, count |-> garbage_pickup_count,
     to_bin |-> garbage_to_bin, actions_bin |-> garbage_actions_bin]

\* AStarController.tick()
AStarTick ==
    /\ ctrl = "astar"
    /\ \E n \in {astar_tick(AStarState)} :
          /\ grid' = n.grid
          /\ pos' = n.pos
          /\ garbage_pickup_count' = n.count
          /\ garbage_to_bin' = n.to_bin
          /\ garbage_actions_bin' = n.actions_bin
    /\ ret' = NoCall
    /\ ticked' = TRUE
    /\ UNCHANGED <<ctrl, goal, cell_types, current_trash, trash_capacity, turn, fault, pl,
                   sim>>

\* AStarController does not define finished(): AgentManager.finished() runs, whose
\* body is a docstring only, so the call returns None.
astar_finished(s) == "None"

\* A call of AStarController.finished() between two ticks
AStarFinished ==
    /\ ctrl = "astar"
    /\ ret' = [call |-> "finished", value |-> astar_finished(AStarState)]
    /\ UNCHANGED <<ctrl, grid, pos, goal, cell_types, current_trash, trash_capacity,
                   garbage_pickup_count, garbage_to_bin, garbage_actions_bin, turn,
                   fault, ticked, pl, sim>>

\* A call of AStarController.agent_locations(): returns self.agent_positions
AStarAgentLocations ==
    /\ ctrl = "astar"
    /\ ret' = [call |-> "agent_locations", value |-> [a \in AgentType |-> pos[a]]]
    /\ UNCHANGED <<ctrl, grid, pos, goal, cell_types, current_trash, trash_capacity,
                   garbage_pickup_count, garbage_to_bin, garbage_actions_bin, turn,
                   fault, ticked, pl, sim>>

AStarNext ==
    \/ Construct
    \/ AStarTick
    \/ AStarFinished
    \/ AStarAgentLocations

AStarSpec == AStarInit /\ [][AStarNext]_vars

\* Grids a single a_star search is run on (walls included).
PlannerGrids ==
    Grids \cup
    { MkGrid(<< <<EMPTY, WALL, DRYTRASH>>,
                <<EMPTY, WALL, EMPTY>>,
                <<EMPTY, WALL, EMPTY>> >>),
      MkGrid(<< <<EMPTY, EMPTY, EMPTY>>,
                <<EMPTY, WALL, WALL>>,
                <<EMPTY, WALL, DRYTRASH>> >>),
      MkGrid(<< <<EMPTY, EMPTY, EMPTY, EMPTY>>,
                <<EMPTY, EMPTY, EMPTY, EMPTY>>,
                <<EMPTY, EMPTY, EMPTY, EMPTY>> >>) }

\* The call a_star(start, gl) on grid g just after its set-up
PlannerSetup(g, start, gl) ==
    /\ ctrl = "planner"
    /\ grid = g
    /\ pl = [done |-> FALSE, start |-> start, goal |-> gl, path |-> <<>>,
             iterations |-> 0, st |-> a_star_init(start)]
    /\ pos = DefaultStart
    /\ goal = [a \in AgentType |-> None]
    /\ cell_types = "trash"
    /\ current_trash = 0
    /\ trash_capacity = PickupLimit
    /\ garbage_pickup_count = 0
    /\ garbage_to_bin = FALSE
    /\ garbage_actions_bin = <<>>
    /\ turn = 1
    /\ fault = NoFault
    /\ ret = NoCall
    /\ ticked = FALSE

\* A call a_star(start, goal) just after its set-up, before the first iteration
PlannerInit ==
    /\ sim = NoSim
    /\ \E g \in PlannerGrids :
          \E start \in {n \in DOMAIN g : g[n] # WALL}, gl \in DOMAIN g :
              PlannerSetup(g, start, gl)

\* One iteration of the while loop of a_star (or its final `return path`);
\* pl.iterations counts them.
PlannerStep ==
    /\ ctrl = "planner"
    /\ ~pl.done
    /\ LET r == a_star_step(grid, pl.goal, pl.st)
       IN pl' = [pl EXCEPT !.done = r.done, !.path = r.path, !.st = r.st,
                           !.iterations = @ + 1]
    /\ UNCHANGED <<ctrl, grid, pos, goal, cell_types, current_trash, trash_capacity,
                   garbage_pickup_count, garbage_to_bin, garbage_actions_bin, turn,
                   fault, ret, ticked, sim>>

PlannerNext == PlannerStep

PlannerSpec == PlannerInit /\ [][PlannerNext]_vars

Init == SeparateInit \/ AStarInit

Next == SeparateNext \/ AStarNext

Spec == Init /\ [][Next]_vars

----------------------------------------------------------------------------
\* sim/app.py: the Simulator that drives a controller

\* One agent's tick computed against the positions the tick started with (s)
\* instead of the live ones (cur); only the agent's own move is written back.
StaleStep(s, cur, a) ==
    {[s |-> [o.s EXCEPT !.pos = [cur.pos EXCEPT ![a] = o.s.pos[a]]], fault |-> o.fault]
     : o \in IF a = GARBAGE THEN garbage_tick([cur EXCEPT !.pos = s.pos])
             ELSE agent_tick([cur EXCEPT !.pos = s.pos], a)}

\* A tick in which every agent is scored against a snapshot of the positions
separate_tick_stale(s, i) ==
    UNION { IF o1.fault # NoFault THEN {o1}
            ELSE UNION { IF o2.fault # NoFault THEN {o2} ELSE StaleStep(s, o2.s, MOP)
                         : o2 \in StaleStep(s, o1.s, VACUUM) }
            : o1 \in StaleStep(s, s, GARBAGE) }

\* SeparateAgents.tick(): the agents tick in the order of the agents dict, from
\* the i-th on; an exception raised by one of them ends the loop and leaves what
\* the earlier agents and the raising agent itself have already written.
RECURSIVE separate_tick_from(_, _)
separate_tick_from(s, i) ==
    IF i > Len(AgentOrder) THEN {[s |-> s, fault |-> NoFault]}
    ELSE UNION { IF o.fault # NoFault THEN {o} ELSE separate_tick_from(o.s, i + 1)
                 : o \in IF AgentOrder[i] = GARBAGE THEN garbage_tick(s)
                         ELSE agent_tick(s, AgentOrder[i]) }

separate_tick(s) == separate_tick_from(s, 1)

\* Simulator.probably_looping for a grid of the shape of g
WatchdogFactor == 10
WatchdogLimit(g) == (Max2(shape0(g), shape1(g)) * Max2(shape0(g), shape1(g))) * WatchdogFactor
\* A watchdog that trips one tick later than Simulator.probably_looping
probably_looping_late(g, ticks) == ticks > WatchdogLimit(g) + 1
probably_looping(g, ticks) == ticks > WatchdogLimit(g)

\* grid_finished of Simulator.finished_sim
grid_finished(g) == ~\E cell \in {SOAKED, WETTRASH, DUSTY, DRYTRASH} : InGrid(g, cell)

\* A finished_sim that takes the controller's word without the grid scan
finished_sim_trusting(agents_finished, g, ticks) ==
    [value    |-> agents_finished \/ probably_looping(g, ticks),
     mismatch |-> agents_finished /\ ~grid_finished(g)]

\* Simulator.finished_sim(), given what self.agents.finished() is taken for in a
\* condition (None counts as false): the value returned and whether the
\* "Agents incorrectly think grid is clean" line is logged
finished_sim(agents_finished, g, ticks) ==
    [value    |-> (agents_finished /\ grid_finished(g)) \/ probably_looping(g, ticks),
     mismatch |-> agents_finished /\ ~grid_finished(g)]

\* The controller's variables as one record
Controller ==
    [grid |-> grid, pos |-> pos, goal |-> goal, cell_types |-> cell_types,
     current_trash |-> current_trash, count |-> garbage_pickup_count,
     to_bin |-> garbage_to_bin, actions_bin |-> garbage_actions_bin]

\* Manager(grid, locations): the controller record after construction
NewController(g, p) ==
    [grid |-> g, pos |-> p, goal |-> [a \in AgentType |-> None], cell_types |-> "trash",
     current_trash |-> 0, count |-> 0, to_bin |-> FALSE, actions_bin |-> <<>>]

\* self.agents.tick() on the controller record c: the [c, fault] it can leave
agents_tick(c) ==
    IF ctrl = "separate"
    THEN {[c |-> [c EXCEPT !.grid = o.s.grid, !.pos = o.s.pos, !.goal = o.s.goal,
                           !.cell_types = o.s.cell_types,
                           !.current_trash = o.s.current_trash],
           fault |-> o.fault]
          : o \in separate_tick([grid |-> c.grid, pos |-> c.pos, goal |-> c.goal,
                                 cell_types |-> c.cell_types,
                                 current_trash |-> c.current_trash,
                                 trash_capacity |-> trash_capacity])}
    ELSE {[c |-> [c EXCEPT !.grid = n.grid, !.pos = n.pos, !.count = n.count,
                           !.to_bin = n.to_bin, !.actions_bin = n.actions_bin],
           fault |-> NoFault]
          : n \in {astar_tick([grid |-> c.grid, pos |-> c.pos, count |-> c.count,
                               to_bin |-> c.to_bin, actions_bin |-> c.actions_bin])}}

\* self.agents.finished() as a condition
agents_finished(c) ==
    IF ctrl = "separate"
    THEN separate_finished([goal |-> c.goal, current_trash |-> c.current_trash])
    ELSE astar_finished(c) = "True"

\* Grids the Simulator is started on. Default start cells are (0,0), (1,0), (2,0);
\* random start cells are a Bin, a Soaked and a Dusty cell. A Simulator keeps the
\* shape of its grid: built with cols = 3 and rows = 3 its seeds give GridEnclosed
\* and GridSmall, built with cols = 3 and rows = 2 they give GridNoBin.
GridEnclosed ==
    MkGrid(<< <<EMPTY, EMPTY, WALL>>,
              <<EMPTY, WALL, DRYTRASH>>,
              <<EMPTY, EMPTY, WALL>> >>)
GridSmall ==
    MkGrid(<< <<BIN, DUSTY, WALL>>,
              <<SOAKED, EMPTY, WALL>>,
              <<EMPTY, WETTRASH, WALL>> >>)
SimGrids == {GridEnclosed, GridNoBin, GridSmall}

\* Ticks the model lets a run go on after the first tick over the watchdog limit
MaxOvertime == 1

\* Results beyond one per test the model lets the user add with runs of new seeds
MaxExtraResults == 1

\* Most cells the user paints in one run of the model
MaxEdits == 1

\* The brushes the key bindings select (select_obstacle has no binding)
Brushes == {EMPTY, BIN, DRYTRASH, WETTRASH, DUSTY, SOAKED}

\* The call of Simulator with one argument per parameter; g is the grid its
\* create_dynamic_grid returns
SimInit ==
    \E call \in SimulatorCalls("Simulator") :
       \E g \in SimGrids : Pending(call, g, DefaultStart)

\* The controller record c becomes the controller's state
Install(c) ==
    /\ grid' = c.grid
    /\ pos' = c.pos
    /\ goal' = c.goal
    /\ cell_types' = c.cell_types
    /\ current_trash' = c.current_trash
    /\ garbage_pickup_count' = c.count
    /\ garbage_to_bin' = c.to_bin
    /\ garbage_actions_bin' = c.actions_bin

\* reset(change_seed) from its line self.grid = self.regenerate_grid() on, g the
\* grid of the seed and starts the locations get_start_positions can return on
\* it, in the Simulator `cleared` with the controller record c. Without
\* locations get_start_positions raises IndexError: self.grid is the new grid
\* already, the manager and the tick count are the old ones, and the exception
\* leaves the handler and ends the application. Otherwise the manager is built
\* anew and the tick count starts again.
Regenerate(cleared, c, g, starts, raising) ==
    IF starts = {}
    THEN /\ fault' = IndexError
         /\ Install([c EXCEPT !.grid = g])
         /\ sim' = [cleared EXCEPT !.on = FALSE]
    ELSE \E p \in starts :
            /\ fault' = raising
            /\ Install(NewController(g, p))
            /\ sim' = [cleared EXCEPT !.ticks = 0, !.start = [grid |-> g, pos |-> p]]

\* self.regenerate_grid(): create_dynamic_grid is called with the cols and rows
\* the Simulator was built with, so every grid of a Simulator has the shape of
\* its first one. The grids of each shape <<cols, rows>>:
regenerate_grid ==
    [shape \in {<<shape0(g), shape1(g)>> : g \in SimGrids} |->
        {g \in SimGrids : <<shape0(g), shape1(g)>> = shape}]

\* Simulator.tick(), fired by the timer while it is not paused.
\* History of the tick, kept for the properties: sim.raised (self.agents.tick()
\* raised), sim.log (what the tick printed or logged), sim.agents_finished (what
\* finished() was taken for), sim.dirty (a hazard cell was left when finished_sim
\* looked) and sim.end: "running", or how finished_sim ended the run, "finished"
\* (agents and grid finished) or "watchdog" (probably_looping).
SimTick ==
    /\ sim.on
    /\ ~sim.paused
    /\ sim.ticks <= WatchdogLimit(grid) + MaxOvertime
    /\ \E o \in agents_tick(Controller) :
        LET ticks == sim.ticks + 1
            raised == o.fault # NoFault
            fin == finished_sim(agents_finished(o.c), o.c.grid, ticks)
            record == fin.value /\ sim.num_tests > 0 /\ ~sim.recorded
            results == IF record THEN sim.results + 1 ELSE sim.results
            resets == fin.value /\ results < sim.num_tests
            end == IF ~fin.value THEN "running"
                   ELSE IF probably_looping(o.c.grid, ticks) THEN "watchdog"
                   ELSE "finished"
            history == [sim EXCEPT !.raised = raised,
                                   !.end = end,
                                   !.agents_finished = agents_finished(o.c),
                                   !.dirty = ~grid_finished(o.c.grid)]
            log == (IF ~raised /\ Cardinality({o.c.pos[a] : a \in AgentType})
                                        # Cardinality(AgentType) THEN {"overlapping"} ELSE {})
                   \cup (IF fin.mismatch THEN {"mismatch"} ELSE {})
                   \cup (IF fin.value /\ ~resets /\ probably_looping(o.c.grid, ticks)
                         THEN {"looping"} ELSE {})
                   \cup (IF fin.value /\ ~resets THEN {"completed"} ELSE {})
                   \cup (IF resets THEN {"reset"} ELSE {})
        IN IF resets
           THEN \E g \in regenerate_grid[<<sim.cols, sim.rows>>] :
                   Regenerate([history EXCEPT !.ticks = ticks, !.paused = raised,
                                              !.results = results, !.recorded = FALSE,
                                              !.log = log],
                              o.c, g, get_start_positions(g, sim.random_start), o.fault)
           ELSE /\ fault' = o.fault
                /\ Install(o.c)
                /\ sim' = [history EXCEPT !.ticks = ticks,
                                          !.paused = raised \/ fin.value,
                                          !.results = results,
                                          !.recorded = @ \/ record,
                                          !.log = log]
    /\ ret' = NoCall
    /\ ticked' = TRUE
    /\ UNCHANGED <<ctrl, trash_capacity, turn, pl>>

\* action_toggle_pause: the user pauses or resumes the timer
SimTogglePause ==
    /\ sim.on
    /\ sim' = [sim EXCEPT !.paused = ~@]
    /\ UNCHANGED <<ctrl, grid, pos, goal, cell_types, current_trash, trash_capacity,
                   garbage_pickup_count, garbage_to_bin, garbage_actions_bin, turn,
                   fault, ret, ticked, pl>>

\* reset(change_seed) called from a key: the log is cleared, a Simulator that
\* holds a result for every test is paused, and the grid and the manager are
\* made anew from the seed, which is a new one when change_seed holds
reset(change_seed) ==
    /\ sim.on
    /\ change_seed => sim.results < sim.num_tests + MaxExtraResults
    /\ LET cleared == [sim EXCEPT !.paused = @ \/ sim.results >= sim.num_tests,
                                  !.recorded = @ /\ ~change_seed,
                                  !.raised = FALSE, !.log = {}, !.end = "running",
                                  !.agents_finished = FALSE, !.dirty = FALSE]
       IN IF change_seed
          THEN \E g \in regenerate_grid[<<sim.cols, sim.rows>>] :
                  Regenerate(cleared, Controller, g,
                             get_start_positions(g, sim.random_start), NoFault)
          ELSE Regenerate(cleared, Controller, sim.start.grid, {sim.start.pos}, NoFault)
    /\ ret' = NoCall
    /\ ticked' = (ticked /\ ~sim'.on)
    /\ UNCHANGED <<ctrl, trash_capacity, turn, pl>>

\* action_reset (key r): the run of the current seed starts again
SimReset == reset(FALSE)

\* action_reset_seed (key R): a run of a new seed starts
SimResetSeed == reset(TRUE)

\* action_zoom_in (key +, scroll down with meta): the scale grows by one, up
\* to the scale the Simulator was built with
SimZoomIn ==
    /\ sim.on
    /\ sim' = [sim EXCEPT !.scale_factor = Min2(@ + 1, sim.original_scale_factor)]
    /\ UNCHANGED <<ctrl, grid, pos, goal, cell_types, current_trash, trash_capacity,
                   garbage_pickup_count, garbage_to_bin, garbage_actions_bin, turn,
                   fault, ret, ticked, pl>>

\* action_zoom_out (key -, scroll up with meta): the scale shrinks by one, down
\* to 1
SimZoomOut ==
    /\ sim.on
    /\ sim' = [sim EXCEPT !.scale_factor =
                              Min2(Max2(1, @ - 1), sim.original_scale_factor)]
    /\ UNCHANGED <<ctrl, grid, pos, goal, cell_types, current_trash, trash_capacity,
                   garbage_pickup_count, garbage_to_bin, garbage_actions_bin, turn,
                   fault, ret, ticked, pl>>

\* handle_click (on_click, on_mouse_move with a button held) with the selected
\* brush. The row of the click is raw_y // (self.scale_factor // 2): at scale 1
\* the divisor is 0, ZeroDivisionError is raised before anything is painted, and
\* the exception leaves the handler and ends the application. Otherwise a click
\* on a cell of the grid does self.grid[x, y] = self.brush.value.
SimClick ==
    /\ sim.on
    /\ IF sim.scale_factor \div 2 = 0
       THEN /\ fault' = ZeroDivisionError
            /\ sim' = [sim EXCEPT !.on = FALSE]
            /\ UNCHANGED grid
       ELSE /\ sim.edits < MaxEdits
            /\ \E p \in DOMAIN grid, brush \in Brushes :
                  /\ grid[p] # brush
                  /\ grid' = [grid EXCEPT ![p] = brush]
            /\ sim' = [sim EXCEPT !.edits = @ + 1]
            /\ UNCHANGED fault
    /\ UNCHANGED <<ctrl, pos, goal, cell_types, current_trash, trash_capacity,
                   garbage_pickup_count, garbage_to_bin, garbage_actions_bin, turn,
                   ret, ticked, pl>>

SimNext ==
    \/ Construct
    \/ SimTick
    \/ SimTogglePause
    \/ SimReset
    \/ SimResetSeed
    \/ SimZoomIn
    \/ SimZoomOut

\* The Simulator and its user: the timer ticks, the user pauses, resumes,
\* resets and zooms
SimSpec == SimInit /\ [][SimNext]_vars

\* The decentralized controller under a Simulator whose user also paints cells
EditInit ==
    /\ SimInit
    /\ pl.Manager = "SeparateAgents"
    /\ grid = GridNoBin
    /\ pl.tests = 0

EditNext ==
    \/ Construct
    \/ SimTick
    \/ SimTogglePause
    \/ SimReset
    \/ SimResetSeed
    \/ SimZoomIn
    \/ SimZoomOut
    \/ SimClick

EditSpec == EditInit /\ [][EditNext]_vars

\* The 3x3 scenario: Bin at (0,0), DryTrash at (0,2), the Garbage agent on the Bin.
GridScenario ==
    MkGrid(<< <<BIN, EMPTY, DRYTRASH>>,
              <<EMPTY, EMPTY, EMPTY>>,
              <<EMPTY, EMPTY, EMPTY>> >>)
ScenarioTrash == <<0, 2>>

\* The scenario is run by either controller, the Garbage agent at (0,0) and the
\* other two anywhere else; the planner is called on it as a_star((0,0), (0,2)).
ScenarioInit ==
    \/ \E p \in {q \in StartPositions(GridScenario) : q[GARBAGE] = <<0, 0>>} :
          \E call \in ManagerCalls("SeparateAgents") \cup ManagerCalls("AStarController") :
             Pending(call, GridScenario, p)
    \/ sim = NoSim /\ PlannerSetup(GridScenario, <<0, 0>>, ScenarioTrash)

ScenarioNext == Next \/ PlannerNext

ScenarioSpec == ScenarioInit /\ [][ScenarioNext]_vars

\* The centralized controller on a grid that holds no Bin and as many trash cells
\* as the pickup limit
GridBinless ==
    MkGrid(<< <<DRYTRASH, DRYTRASH>>,
              <<DRYTRASH, WETTRASH>>,
              <<WETTRASH, EMPTY>> >>)

BinlessInit ==
    \E call \in ManagerCalls("AStarController") :
       \E p \in StartPositions(GridBinless) : Pending(call, GridBinless, p)

BinlessSpec == BinlessInit /\ [][AStarNext]_vars

\* The decentralized controller on a grid without Bin that holds as many trash
\* cells as a Garbage agent of the default capacity carries, next to an empty
\* aisle; the agents start on cells of the column y = 0
GridAisle ==
    MkGrid(<< <<EMPTY, DRYTRASH, DRYTRASH, WETTRASH, DRYTRASH, DRYTRASH>>,
              <<EMPTY, DRYTRASH, DRYTRASH, DRYTRASH, WETTRASH, DRYTRASH>>,
              <<EMPTY, EMPTY, EMPTY, EMPTY, EMPTY, EMPTY>> >>)

AisleInit ==
    \E call \in ManagerCalls("SeparateAgents") :
       \E p \in EdgeStartPositions(GridAisle) : Pending(call, GridAisle, p)

AisleSpec == AisleInit /\ [][SeparateNext]_vars

\* Agent.find_nearest_cell as a function of its inputs: grids of every shape up
\* to MaxSide x MaxSide with up to MaxMarks Dusty or Soaked cells, the agent on
\* any cell, looking for Dusty cells or for Dusty and Soaked cells.
MaxSide == 3
MaxMarks == 2

SearchGrids ==
    UNION { { [p \in (0 .. rows - 1) \X (0 .. cols - 1) |->
                 IF p \in DOMAIN marks THEN marks[p] ELSE EMPTY]
              : marks \in UNION { [S -> {DUSTY, SOAKED}]
                                  : S \in {T \in SUBSET ((0 .. rows - 1) \X (0 .. cols - 1)) :
                                              Cardinality(T) <= MaxMarks} } }
            : rows \in 1 .. MaxSide, cols \in 1 .. MaxSide }

SearchTypes == {{DUSTY}, {DUSTY, SOAKED}}

SearchInit ==
    /\ sim = NoSim
    /\ ctrl = "search"
    /\ \E g \in SearchGrids : \E p \in DOMAIN g, values \in SearchTypes :
          /\ grid = g
          /\ pl = [done |-> FALSE, start |-> p, values |-> values,
                   visited |-> <<>>, found |-> None]
    /\ pos = DefaultStart
    /\ goal = [a \in AgentType |-> None]
    /\ cell_types = "trash"
    /\ current_trash = 0
    /\ trash_capacity = DefaultCapacity
    /\ garbage_pickup_count = 0
    /\ garbage_to_bin = FALSE
    /\ garbage_actions_bin = <<>>
    /\ turn = 1
    /\ fault = NoFault
    /\ ret = NoCall
    /\ ticked = FALSE

\* A call of find_nearest_cell(*values) by an agent at pl.start; visited is what
\* iter_closest yields when it is run to its end.
FindNearestCell ==
    /\ ctrl = "search"
    /\ ~pl.done
    /\ pl' = [pl EXCEPT !.done = TRUE,
                        !.visited = iter_closest(pl.start[1], pl.start[2], grid),
                        !.found = find_nearest_cell(grid, pl.start, pl.values)]
    /\ UNCHANGED <<ctrl, grid, pos, goal, cell_types, current_trash, trash_capacity,
                   garbage_pickup_count, garbage_to_bin, garbage_actions_bin, turn,
                   fault, ret, ticked, sim>>

SearchNext == FindNearestCell

SearchSpec == SearchInit /\ [][SearchNext]_vars

\* AStarController.find_closest_goal as a function of its inputs: the grids of
\* the runs and a walled 4x4 grid with two Dusty cells, any non-Wall start cell,
\* any cell type the controller looks for.
GridMaze ==
    MkGrid(<< <<EMPTY, EMPTY, EMPTY, WALL>>,
              <<EMPTY, WALL, EMPTY, EMPTY>>,
              <<WALL, EMPTY, EMPTY, EMPTY>>,
              <<DUSTY, EMPTY, EMPTY, DUSTY>> >>)

LookupGrids == AStarGrids \cup {GridMaze}

LookupTypes == {DUSTY, SOAKED, DRYTRASH, WETTRASH, BIN}

LookupInit ==
    /\ sim = NoSim
    /\ ctrl = "lookup"
    /\ \E g \in LookupGrids :
         \E start \in {n \in DOMAIN g : g[n] # WALL}, goal_type \in LookupTypes :
          /\ grid = g
          /\ pl = [done |-> FALSE, start |-> start, goal_type |-> goal_type,
                   found |-> None]
    /\ pos = DefaultStart
    /\ goal = [a \in AgentType |-> None]
    /\ cell_types = "trash"
    /\ current_trash = 0
    /\ trash_capacity = PickupLimit
    /\ garbage_pickup_count = 0
    /\ garbage_to_bin = FALSE
    /\ garbage_actions_bin = <<>>
    /\ turn = 1
    /\ fault = NoFault
    /\ ret = NoCall
    /\ ticked = FALSE

\* A call of find_closest_goal(pl.start, pl.goal_type)
FindClosestGoal ==
    /\ ctrl = "lookup"
    /\ ~pl.done
    /\ \E found \in {find_closest_goal(grid, pl.start, pl.goal_type)} :
          pl' = [pl EXCEPT !.done = TRUE, !.found = found]
    /\ UNCHANGED <<ctrl, grid, pos, goal, cell_types, current_trash, trash_capacity,
                   garbage_pickup_count, garbage_to_bin, garbage_actions_bin, turn,
                   fault, ret, ticked, sim>>

LookupNext == FindClosestGoal

LookupSpec == LookupInit /\ [][LookupNext]_vars

\* Construction on its own: main's call of app.Simulator, a call of Simulator
\* with one argument per parameter, and a call of Manager(grid, locations)
ConstructInit ==
    \E g \in Grids :
       \/ \E call \in SimulatorCalls("main") \cup SimulatorCalls("Simulator") :
             Pending(call, g, DefaultStart)
       \/ \E call \in ManagerCalls("SeparateAgents") \cup ManagerCalls("AStarController") :
             \E p \in StartPositions(g) : Pending(call, g, p)

ConstructNext == Construct

ConstructSpec == ConstructInit /\ [][ConstructNext]_vars

----------------------------------------------------------------------------
\* Properties

Distinct(p) == \A a \in AgentType, b \in AgentType : a # b => p[a] # p[b]

Adjacent(p) == \E a \in AgentType, b \in AgentType : manhattan_distance(p[a], p[b]) = 1

Hazards == {DRYTRASH, WETTRASH, DUSTY, SOAKED}

NoHazard(g) == \A p \in DOMAIN g : g[p] \notin Hazards

TrashLeft(g) == InGrid(g, DRYTRASH) \/ InGrid(g, WETTRASH)

\* The cells that can be reached from the cells of S by unit moves over non-Wall cells
RECURSIVE Reach(_, _)
Reach(g, S) ==
    LET N == S \cup {n \in DOMAIN g : g[n] # WALL /\ \E m \in S : manhattan_distance(m, n) = 1}
    IN IF N = S THEN S ELSE Reach(g, N)

\* C1: decentralized controller, started on pairwise-distinct cells: after every
\* tick(), whatever the random tie-breaks, no two of the three agents are on the
\* same cell.
C1_SeparateNoCollision ==
    (ctrl = "separate" /\ turn = 1) => Distinct(pos)

\* C1 witness: ticks have run, trash has been picked up and two agents stand on
\* neighbouring cells.
C1_Witness ==
    /\ ctrl = "separate" /\ turn = 1 /\ ticked /\ fault = NoFault
    /\ current_trash > 0
    /\ Adjacent(pos)
    /\ Distinct(pos)

\* C2: centralized controller, started on pairwise-distinct cells: after every
\* tick() no two of the Garbage, Vacuum and Mop agents are on the same cell.
C2_AStarNoCollision ==
    ctrl = "astar" => Distinct(pos)

\* C3: the GarbageCollector's load never exceeds its capacity: current_trash <=
\* trash_capacity in SeparateAgents, garbage_pickup_count <= 5 in AStarController.
C3_LoadWithinCapacity ==
    /\ ctrl = "separate" => current_trash <= trash_capacity
    /\ ctrl = "astar" => garbage_pickup_count <= PickupLimit

\* C3 witness: the centralized Garbage agent has picked up as much as it may hold
\* while trash is still lying on the grid.
C3_Witness ==
    /\ ctrl = "astar"
    /\ garbage_pickup_count = PickupLimit
    /\ TrashLeft(grid)

\* The load has reached capacity.
Full ==
    \/ ctrl = "separate" /\ current_trash = trash_capacity
    \/ ctrl = "astar" /\ garbage_pickup_count >= PickupLimit

\* While full, the goal the Garbage agent holds, and the one it selects, is a
\* Bin: the decentralized agent holds self.goal and selects with find_best_cell
\* (None when it finds no cell); the centralized tick selects garbage_goal_bin
\* with find_closest_goal, which always returns a cell.
FullGoalIsBin ==
    /\ (ctrl = "separate" /\ Full) =>
          /\ cell_types = "bin"
          /\ goal[GARBAGE] # None => grid[goal[GARBAGE]] = BIN
          /\ agent_find_best_cell(SepState, GARBAGE) # None =>
                grid[agent_find_best_cell(SepState, GARBAGE)] = BIN
    /\ (ctrl = "astar" /\ Full) =>
          grid[find_closest_goal(grid, pos[GARBAGE], BIN)] = BIN

\* While full, a step picks up no trash: the load is kept or reset to zero and
\* every DryTrash/WetTrash cell stays as it is.
FullNoPickup ==
    Full =>
        /\ ctrl = "separate" => current_trash' \in {current_trash, 0}
        /\ ctrl = "astar" => garbage_pickup_count' \in {garbage_pickup_count, 0}
        /\ \A p \in DOMAIN grid : grid[p] \in {DRYTRASH, WETTRASH} => grid'[p] = grid[p]

\* C4: from the tick in which the load reaches capacity until it returns to zero,
\* any goal the GarbageCollector holds or selects is a Bin cell and it picks up no
\* DryTrash/WetTrash (the load changes only by the reset to zero).
C4_FullMeansBinTrip ==
    [](FullGoalIsBin) /\ [][FullNoPickup]_vars

\* C5: on a grid without Wall cells the move list a_star(start, goal) returns has
\* exactly |start.x - goal.x| + |start.y - goal.y| moves.
C5_PathLengthIsManhattan ==
    (ctrl = "planner" /\ pl.done /\ ~InGrid(grid, WALL)) =>
        Len(pl.path) = manhattan_distance(pl.start, pl.goal)

\* Wall cells fully separate the start of the search from its goal.
Separated == ctrl = "planner" /\ pl.goal \notin Reach(grid, {pl.start})

NoDuplicates(seq) == \A i \in 1 .. Len(seq), j \in 1 .. Len(seq) : i # j => seq[i] # seq[j]

\* C6: when Wall cells fully separate start from goal, a_star(start, goal) hands
\* each cell to the open set at most once, runs at most one loop iteration per
\* cell before it returns, and returns the empty list.
C6_SeparatedSearchEndsEmpty ==
    Separated =>
        /\ NoDuplicates(pl.st.puts)
        /\ pl.iterations <= Cardinality(DOMAIN grid) + 1
        /\ pl.done => pl.path = <<>>

\* C6 witness: a search for a walled-off goal has returned after it had expanded
\* cells around its start.
C6_Witness ==
    /\ Separated /\ pl.done
    /\ Len(pl.st.puts) > 2
    /\ pl.path = <<>>

\* C7: decentralized controller, after ticks: finished() is true if and only if no
\* DryTrash, WetTrash, Dusty or Soaked cell remains AND no agent holds a goal AND
\* the GarbageCollector's load is zero.
C7_FinishedIffAllDone ==
    (ctrl = "separate" /\ turn = 1 /\ ticked /\ fault = NoFault) =>
        (separate_finished(SepState) <=>
            /\ NoHazard(grid)
            /\ \A a \in AgentType : goal[a] = None
            /\ current_trash = 0)

\* C8: centralized controller: whenever no DryTrash, WetTrash, Dusty or Soaked cell
\* remains and the pickup count is zero, finished() returns true.
C8_AStarFinishedWhenClean ==
    (ctrl = "astar" /\ ticked /\ NoHazard(grid) /\ garbage_pickup_count = 0) =>
        astar_finished(AStarState) = "True"

\* C9: finished() and agent_locations() change nothing: a call leaves the grid,
\* the agents' positions and goals and the garbage load as they are, and finished()
\* called again without a tick() in between returns the same value.
C9_QueriesChangeNothing ==
    [][ret'.call # "none" =>
          /\ UNCHANGED <<grid, pos, goal, cell_types, current_trash, trash_capacity,
                         garbage_pickup_count, garbage_to_bin, garbage_actions_bin>>
          /\ (ret.call = "finished" /\ ret'.call = "finished") => ret'.value = ret.value
       ]_vars

\* C9 witness: finished() has been called on a decentralized controller that has
\* ticked, still holds goals, and answered False.
C9_Witness ==
    /\ ctrl = "separate" /\ ticked
    /\ ret.call = "finished" /\ ret.value = "False"
    /\ \E a \in AgentType : goal[a] # None

\* C10: no tick of either controller changes the value of a Wall or a Bin cell.
C10_WallAndBinKept ==
    [][\A p \in DOMAIN grid : grid[p] \in {WALL, BIN} => grid'[p] = grid[p]]_vars

\* C10 witness: on the walled grid the decentralized Garbage agent has picked up
\* trash and unloaded it, and stands on the Bin with an empty load.
C10_Witness ==
    /\ ctrl = "separate" /\ ticked
    /\ InGrid(grid, WALL)
    /\ \E p \in DOMAIN grid : grid[p] \in {DUSTY, SOAKED}
    /\ grid[pos[GARBAGE]] = BIN
    /\ current_trash = 0

\* The cell changes a tick may make at cell p between grids g and h when the
\* agents end at positions q: the Garbage agent bags trash where it stands, the
\* Vacuum and the Mop clear residue where they stand. When the Vacuum or the Mop
\* ends the tick on the cell the Garbage agent has just bagged, both changes
\* happen to that cell in the same tick, one after the other.
AllowedChange(g, h, q, p) ==
    \/ q[GARBAGE] = p /\ g[p] = DRYTRASH /\ h[p] = DUSTY
    \/ q[GARBAGE] = p /\ g[p] = WETTRASH /\ h[p] = SOAKED
    \/ q[VACUUM] = p /\ g[p] = DUSTY /\ h[p] = EMPTY
    \/ q[MOP] = p /\ g[p] = SOAKED /\ h[p] = EMPTY
    \/ q[GARBAGE] = p /\ q[VACUUM] = p /\ g[p] = DRYTRASH /\ h[p] = EMPTY
    \/ q[GARBAGE] = p /\ q[MOP] = p /\ g[p] = WETTRASH /\ h[p] = EMPTY

\* C11: no external edits: every cell a step of either controller changes goes
\* DryTrash->Dusty or WetTrash->Soaked under the Garbage agent, Dusty->Empty under
\* the Vacuum, Soaked->Empty under the Mop (or two of these in a row within one
\* centralized tick); every other cell keeps its value.
C11_OnlyCleaningChanges ==
    [][\A p \in DOMAIN grid :
          grid'[p] # grid[p] => AllowedChange(grid, grid', pos', p)]_vars

\* C11 witness: a run in which all three kinds of change have happened: the grid
\* started with trash and residue, and every hazard has been cleared.
C11_Witness ==
    /\ ticked
    /\ NoHazard(grid)
    /\ InGrid(grid, BIN)
    /\ \E a \in AgentType : grid[pos[a]] = EMPTY
    /\ (ctrl = "separate" => current_trash > 0)
    /\ (ctrl = "astar" => garbage_pickup_count > 0)

\* C12: no agent starts on a Wall cell: after every tick of either controller no
\* agent stands on a Wall cell.
C12_NoAgentOnWall == \A a \in AgentType : grid[pos[a]] # WALL

\* C13, planner part: a_star((0,0),(0,2)) returns a path of 2 moves.
ScenarioPathHasTwoMoves == (ctrl = "planner" /\ pl.done) => Len(pl.path) = 2

\* C13, finished part: while the scenario's trash cell is DryTrash or Dusty, a call
\* of finished() does not return True.
ScenarioNotFinishedEarly ==
    (ret.call = "finished" /\ grid[ScenarioTrash] \in {DRYTRASH, DUSTY})
        => ret.value # "True"

\* C13, collection part: the step that takes the DryTrash away is the Garbage
\* agent's, on that cell, and leaves it Dusty (or Empty when the Vacuum cleans the
\* Dusty cell within the same centralized tick).
ScenarioCollectLeavesDusty ==
    (grid[ScenarioTrash] = DRYTRASH /\ grid'[ScenarioTrash] # DRYTRASH)
        => /\ pos'[GARBAGE] = ScenarioTrash
           /\ \/ grid'[ScenarioTrash] = DUSTY
              \/ grid'[ScenarioTrash] = EMPTY /\ pos'[VACUUM] = ScenarioTrash

\* C13: on the 3x3 scenario grid (DryTrash at (0,2), Bin at (0,0), Garbage agent
\* at (0,0)) the planner returns a 2-move path to the trash, collecting leaves
\* the cell Dusty, and finished() is false until the Vacuum has emptied the cell.
C13_Scenario ==
    /\ [](ScenarioPathHasTwoMoves /\ ScenarioNotFinishedEarly)
    /\ [][ScenarioCollectLeavesDusty]_vars

\* The cells next to p
Neighbours(g, p) == {n \in DOMAIN g : manhattan_distance(n, p) = 1}

\* The centralized controller runs under the Simulator on a grid whose only
\* DryTrash cell has a Wall on every side
EnclosedRun ==
    /\ sim.on /\ ctrl = "astar"
    /\ \E c \in DOMAIN grid :
          /\ {p \in DOMAIN grid : grid[p] = DRYTRASH} = {c}
          /\ \A n \in Neighbours(grid, c) : grid[n] = WALL

\* C14: the only DryTrash cell is enclosed by Walls: no centralized tick raises,
\* the planner has no path to the cell in any tick and the Garbage agent never
\* stands on it, the cell stays DryTrash while the run goes on, only the watchdog
\* ends the run, and the run is never reported as completed.
C14_EnclosedTrashRun ==
    /\ [](EnclosedRun =>
            /\ fault = NoFault /\ ~sim.raised
            /\ astar_plan(grid, pos).garbage_actions_dry = <<>>
            /\ grid[pos[GARBAGE]] # DRYTRASH
            /\ sim.end # "finished"
            /\ "completed" \notin sim.log)
    /\ [][(EnclosedRun /\ sim'.ticks = sim.ticks + 1) => EnclosedRun']_vars

\* The step is the user's resuming of the paused timer and nothing else
Resumed ==
    /\ sim.paused
    /\ sim' = [sim EXCEPT !.paused = FALSE]
    /\ UNCHANGED <<ctrl, grid, pos, goal, cell_types, current_trash, trash_capacity,
                   garbage_pickup_count, garbage_to_bin, garbage_actions_bin, turn,
                   fault, ret, ticked, pl>>

C16_CrossCheck ==
    (sim.on /\ ticked) =>
        /\ sim.end = "finished" => ~sim.dirty
        /\ (sim.agents_finished /\ sim.dirty) =>
              ("mismatch" \in sim.log /\ sim.end # "finished")

\* C16 witness: the decentralized agents report finished while a hazard cell is
\* left: the tick logs the mismatch and the run goes on.
C16_Witness ==
    /\ sim.on /\ ticked /\ ctrl = "separate"
    /\ sim.agents_finished /\ sim.dirty /\ ~NoHazard(grid)
    /\ "mismatch" \in sim.log
    /\ sim.end = "running" /\ ~sim.paused

\* C17: a tick in which self.agents.tick() raises pauses the run and leaves the
\* grid, the agents' positions, their goals and the load as they were before it.
C17_FaultCommitsNothing ==
    [][(sim.on /\ sim'.ticks = sim.ticks + 1 /\ sim'.raised)
          => /\ sim'.paused
             /\ UNCHANGED <<grid, pos, goal, current_trash>>]_vars

\* C18: the user may paint cells between ticks: a tick of the decentralized
\* controller still changes cells only by DryTrash->Dusty / WetTrash->Soaked under
\* the Garbage agent, Dusty->Empty under the Vacuum, Soaked->Empty under the Mop,
\* and the load stays within the capacity.
C18_EditedGoalRevalidated ==
    /\ [](ctrl = "separate" => current_trash <= trash_capacity)
    /\ [][(sim.on /\ ctrl = "separate" /\ sim'.ticks = sim.ticks + 1)
            => \A p \in DOMAIN grid :
                  grid'[p] # grid[p] => AllowedChange(grid, grid', pos', p)]_vars

\* C19: in every SeparateAgents.tick() the agents step in the order Garbage,
\* Vacuum, Mop, and each agent is scored against the positions as they are when
\* it steps: those the earlier agents have moved to in this tick and those the
\* later agents still have. Every tick that completes is a Garbage step from the
\* state before the tick, then a Vacuum step from what that left, then a Mop step
\* from what that left.
C19_SteppedInOrder ==
    [][(sim.on /\ ctrl = "separate" /\ sim'.ticks = sim.ticks + 1 /\ fault' = NoFault)
          => \E o1 \in garbage_tick(SepState) :
               /\ o1.fault = NoFault
               /\ \E o2 \in agent_tick(o1.s, VACUUM) :
                    /\ o2.fault = NoFault
                    /\ \E o3 \in agent_tick(o2.s, MOP) :
                         /\ o3.fault = NoFault
                         /\ grid' = o3.s.grid
                         /\ pos' = o3.s.pos
                         /\ goal' = o3.s.goal
                         /\ cell_types' = o3.s.cell_types
                         /\ current_trash' = o3.s.current_trash]_vars

\* C19 witness: a decentralized run has completed a tick in which agents moved,
\* and stands in a state where the order matters: scoring the agents against the
\* positions held at the start of the tick would allow a different next tick.
C19_Witness ==
    /\ sim.on /\ ctrl = "separate" /\ ticked /\ fault = NoFault /\ sim.ticks > 0
    /\ pos # DefaultStart
    /\ separate_tick(SepState) # separate_tick_stale(SepState, 1)

\* The Vacuum and Mop cells a centralized tick would leave if, after the Garbage
\* agent bagged the trash on cell q, their goals and paths were planned on the
\* grid that holds that change.
PlannedAfterGarbage(q) ==
    LET mid_grid == [grid EXCEPT ![q] = IF @ = DRYTRASH THEN DUSTY ELSE SOAKED]
        mid_pos == [pos EXCEPT ![GARBAGE] = q]
        plan == astar_plan(mid_grid, mid_pos)
        c1 == tick_agent([grid |-> mid_grid, pos |-> mid_pos, count |-> 0],
                         VACUUM, plan.vacuum_actions)
        c2 == tick_agent(c1, MOP, plan.mop_actions)
    IN c2.pos

\* C20: a change the Garbage agent makes to the grid is seen within the same
\* tick. Decentralized: the Vacuum's and the Mop's step is taken from the grid as
\* the steps before it left it. Centralized: in a tick in which the Garbage agent
\* turns DryTrash into Dusty or WetTrash into Soaked, the Vacuum and the Mop end
\* where goals and paths computed on the grid with that change take them.
C20_SameTickVisible ==
    [][(ctrl = "astar" /\ garbage_pickup_count' = garbage_pickup_count + 1)
          => /\ pos'[VACUUM] = PlannedAfterGarbage(pos'[GARBAGE])[VACUUM]
             /\ pos'[MOP] = PlannedAfterGarbage(pos'[GARBAGE])[MOP]]_vars

\* C21: decentralized controller: a goal an agent holds stays the same cell from
\* step to step until the agent stands on it, and is cleared only by the step in
\* which the agent reaches it.
C21_GoalKeptUntilReached ==
    [][ctrl = "separate"
          => \A a \in AgentType :
                goal[a] # None
                   => \/ goal'[a] = goal[a]
                      \/ goal'[a] = None /\ pos'[a] = goal[a]]_vars

\* Manhattan distance from cell p to the nearest Bin cell of g (g holds a Bin)
NearestBinDistance(g, p) ==
    SetMin({manhattan_distance(p, b) : b \in {n \in DOMAIN g : g[n] = BIN}})

\* A grid with a Bin and without trash, the Garbage agent loaded and off the Bin
FinalTripDue ==
    /\ ~TrashLeft(grid)
    /\ InGrid(grid, BIN)
    /\ grid[pos[GARBAGE]] # BIN
    /\ \/ ctrl = "separate" /\ current_trash > 0
       \/ ctrl = "astar" /\ garbage_pickup_count > 0

\* C22: final trip, either controller: with no DryTrash and no WetTrash left and a
\* load above zero (full or not), the Garbage agent's step targets the nearest
\* Bin and takes it nearer to it.
C22_FinalTrip ==
    [][(/\ FinalTripDue
        /\ \/ ctrl = "separate" /\ turn = 1 /\ turn' = 2
           \/ ctrl = "astar" /\ ticked' /\ ret' = NoCall)
          => /\ NearestBinDistance(grid', pos'[GARBAGE])
                  < NearestBinDistance(grid, pos[GARBAGE])
             /\ ctrl = "separate"
                  => \/ grid[pos'[GARBAGE]] = BIN
                     \/ /\ goal'[GARBAGE] # None
                        /\ grid[goal'[GARBAGE]] = BIN]_vars

\* A Bin cell can be reached from the Garbage agent's cell over non-Wall cells
BinReachable == \E b \in Reach(grid, {pos[GARBAGE]}) : grid[b] = BIN

\* tick() leaves the centralized controller exactly as it is, so every later
\* tick does too
AStarTickChangesNothing == \A n \in {astar_tick(AStarState)} : n = AStarState

\* C23: centralized bin trip: on a grid whose Bin the Garbage agent can reach,
\* whenever the pickup count has reached the limit of 5 the agent eventually
\* stands on a Bin cell with its count back at zero. Stated as the safety
\* property it implies: a state with the count at the limit, a reachable Bin and
\* the agent off the Bin is never one that further ticks can no longer change.
C23_BinTripCompletes ==
    (/\ ctrl = "astar"
     /\ garbage_pickup_count >= PickupLimit
     /\ BinReachable
     /\ grid[pos[GARBAGE]] # BIN)
        => ~AStarTickChangesNothing

\* C24: either controller: the Garbage agent's load goes from a positive value
\* to zero only in a step that ends with the agent standing on a Bin cell (so on
\* a grid without a reachable Bin the load is never reset).
C24_ResetOnlyOnBin ==
    [][(\/ ctrl = "separate" /\ current_trash > 0 /\ current_trash' = 0
        \/ ctrl = "astar" /\ garbage_pickup_count > 0 /\ garbage_pickup_count' = 0)
          => grid'[pos'[GARBAGE]] = BIN]_vars

\* Agent a, whose cells are of type v, has such a cell within reach and in this
\* step either leaves its cell or empties a cell of that type
Advances(a, v) ==
    (\E d \in Reach(grid, {pos[a]}) : grid[d] = v)
        => \/ pos'[a] # pos[a]
           \/ \E d \in DOMAIN grid : grid[d] = v /\ grid'[d] = EMPTY

\* C25: every centralized tick steps every agent: in each tick, ticks of a bin
\* trip included, the Vacuum advances toward (or cleans) a Dusty cell whenever one
\* is within its reach, and the Mop does so for a Soaked cell.
C25_EveryAgentStepped ==
    [][(ctrl = "astar" /\ ticked' /\ ret' = NoCall)
          => Advances(VACUUM, DUSTY) /\ Advances(MOP, SOAKED)]_vars

\* The agents as agent a sees them when its tick has chosen its goal: the Garbage
\* agent first switches to Bin when no trash is left and it carries some; an agent
\* without goal takes the best cell of its types, if any.
AtGoalChoice(a) ==
    LET s0 == IF /\ a = GARBAGE /\ ~TrashLeft(grid) /\ current_trash # 0
              THEN [SepState EXCEPT !.cell_types = "bin"] ELSE SepState
    IN [s0 EXCEPT !.goal[a] = IF @ # None THEN @ ELSE agent_find_best_cell(s0, a)]

\* Twice the priority-discounted Manhattan separation of agent a from the agent
\* nearest to it, were a to take move m
Separation(s, a, m) ==
    SetMin({2 * manhattan_distance(<<s.pos[a][1] + m[1], s.pos[a][2] + m[2]>>, s.pos[o])
            - Max2(priority(s, a) - priority(s, o), 0) : o \in AgentType \ {a}})

\* The in-bounds candidate moves of agent a: the four directions and staying
Candidates(a) ==
    {m \in {<<0, 0>>, <<-1, 0>>, <<0, -1>>, <<1, 0>>, <<0, 1>>} :
        <<pos[a][1] + m[1], pos[a][2] + m[2]>> \in DOMAIN grid}

\* Agent a evades: it holds a goal and a candidate move has separation <= 0, or
\* it is idle and its best separation is <= 6
Evades(a) ==
    \/ /\ AtGoalChoice(a).goal[a] # None
       /\ \E m \in Candidates(a) : Separation(AtGoalChoice(a), a, m) <= 0
    \/ /\ AtGoalChoice(a).goal[a] = None
       /\ \A m \in Candidates(a) : Separation(AtGoalChoice(a), a, m) <= 2 * ComfortDistance

\* C26: decentralized collision avoidance: the move an evading agent takes is one
\* of its in-bounds candidate moves, and no candidate has a larger minimum
\* priority-discounted separation from the other agents.
C26_EvadeMaximisesSeparation ==
    [][\A a \in AgentType :
          (/\ ctrl = "separate" /\ AgentOrder[turn] = a
           /\ turn' = (turn % Len(AgentOrder)) + 1 /\ fault' = NoFault
           /\ Evades(a))
             => \E m \in Candidates(a) :
                  /\ pos'[a] = <<pos[a][1] + m[1], pos[a][2] + m[2]>>
                  /\ \A n \in Candidates(a) :
                        Separation(AtGoalChoice(a), a, n)
                           <= Separation(AtGoalChoice(a), a, m)]_vars

\* C27: ring search: iter_closest yields in-bounds cells only and yields every
\* cell of the grid; find_nearest_cell returns a cell of a requested type that no
\* cell of a requested type is nearer to the agent than (Manhattan), and returns
\* None exactly when the grid holds no cell of a requested type.
C27_RingSearch ==
    (ctrl = "search" /\ pl.done)
       => /\ \A i \in 1 .. Len(pl.visited) : pl.visited[i] \in DOMAIN grid
          /\ {pl.visited[i] : i \in 1 .. Len(pl.visited)} = DOMAIN grid
          /\ (pl.found = None) <=> ~\E q \in DOMAIN grid : grid[q] \in pl.values
          /\ pl.found # None
               => /\ pl.found \in DOMAIN grid
                  /\ grid[pl.found] \in pl.values
                  /\ \A q \in DOMAIN grid :
                        grid[q] \in pl.values
                           => manhattan_distance(pl.start, pl.found)
                                 <= manhattan_distance(pl.start, q)

\* C27 witness: on the largest grid an agent in a corner finds the single cell
\* of its type in the opposite corner, on the last ring, behind a nearer cell of
\* another type.
C27_Witness ==
    /\ ctrl = "search" /\ pl.done
    /\ shape0(grid) = MaxSide /\ shape1(grid) = MaxSide
    /\ pl.start = <<0, 0>>
    /\ pl.values = {DUSTY}
    /\ pl.found = <<MaxSide - 1, MaxSide - 1>>
    /\ InGrid(grid, SOAKED)

\* The number of unit moves over non-Wall cells it takes to get from a cell of S
\* to cell b, which can be reached from S; d is the number of moves already made
RECURSIVE PathDistance(_, _, _, _)
PathDistance(g, S, b, d) ==
    IF b \in S THEN d
    ELSE PathDistance(g, S \cup {n \in DOMAIN g : g[n] # WALL /\
                                    \E m \in S : manhattan_distance(m, n) = 1},
                      b, d + 1)

\* The cells of type v that can be reached from cell start
ReachableGoals(g, start, v) == {q \in Reach(g, {start}) : g[q] = v}

\* C28: centralized goal lookup: find_closest_goal(start, type) returns a
\* reachable cell of the type that no reachable cell of the type has a shorter
\* wall-avoiding path to, and returns start when no cell of the type can be
\* reached.
C28_ClosestGoal ==
    (ctrl = "lookup" /\ pl.done)
       => /\ ReachableGoals(grid, pl.start, pl.goal_type) = {} => pl.found = pl.start
          /\ ReachableGoals(grid, pl.start, pl.goal_type) # {}
               => /\ pl.found \in ReachableGoals(grid, pl.start, pl.goal_type)
                  /\ \A q \in ReachableGoals(grid, pl.start, pl.goal_type) :
                        PathDistance(grid, {pl.start}, pl.found, 0)
                           <= PathDistance(grid, {pl.start}, q, 0)

\* The positions an agent goes through when the moves of `actions` are applied
\* in order, beginning at p (p itself first)
RECURSIVE PathPositions(_, _, _)
PathPositions(g, p, actions) ==
    IF actions = <<>> THEN <<p>>
    ELSE <<p>> \o PathPositions(g, apply_action(g, p, Head(actions)), Tail(actions))

\* C29: for a goal that can be reached from start, applying the moves returned
\* by a_star(start, goal) in order, beginning at start, ends exactly on goal;
\* every position on the way is in bounds and not a Wall, and each move changes
\* the position by one cell.
C29_PathLeadsToGoal ==
    (ctrl = "planner" /\ pl.done /\ pl.goal \in Reach(grid, {pl.start}))
       => \A walk \in {PathPositions(grid, pl.start, pl.path)} :
            /\ walk[Len(walk)] = pl.goal
            /\ \A i \in 1 .. Len(walk) : is_valid_move(grid, walk[i])
            /\ \A i \in 1 .. Len(walk) - 1 :
                  manhattan_distance(walk[i], walk[i + 1]) = 1

\* The clean-up steps a cell of value v still needs: trash is bagged and then its
\* residue is cleared, residue is cleared, anything else needs nothing
StepsLeft(v) ==
    IF v \in {DRYTRASH, WETTRASH} THEN 2
    ELSE IF v \in {DUSTY, SOAKED} THEN 1
    ELSE 0

RECURSIVE SumStepsLeft(_, _)
SumStepsLeft(g, cells) ==
    IF cells = {} THEN 0
    ELSE LET p == CHOOSE q \in cells : TRUE
         IN StepsLeft(g[p]) + SumStepsLeft(g, cells \ {p})

\* The total of remaining clean-up steps of grid g
RemainingSteps(g) == SumStepsLeft(g, DOMAIN g)

\* The number of DryTrash and WetTrash cells of grid g
TrashCells(g) == Cardinality({p \in DOMAIN g : g[p] \in {DRYTRASH, WETTRASH}})

\* Value w lies after value v on DryTrash -> Dusty -> Empty or on
\* WetTrash -> Soaked -> Empty
Downstream(v, w) ==
    \/ v = DRYTRASH /\ w \in {DUSTY, EMPTY}
    \/ v = WETTRASH /\ w \in {SOAKED, EMPTY}
    \/ v = DUSTY /\ w = EMPTY
    \/ v = SOAKED /\ w = EMPTY

\* C30: contamination only decreases: without external edits a step of either
\* controller changes a cell only forward along DryTrash -> Dusty -> Empty or
\* WetTrash -> Soaked -> Empty, so no trash cell is created and no Empty cell
\* becomes a hazard; the number of trash cells never increases, and the total of
\* remaining clean-up steps goes down with every step that cleans something.
C30_ContaminationDecreases ==
    [][/\ \A p \in DOMAIN grid : grid'[p] # grid[p] => Downstream(grid[p], grid'[p])
       /\ TrashCells(grid') <= TrashCells(grid)
       /\ RemainingSteps(grid') <= RemainingSteps(grid)
       /\ grid' # grid => RemainingSteps(grid') < RemainingSteps(grid)]_vars

\* C30 witness: the Garbage agent has bagged the last trash cell of a grid and
\* residue is still waiting for the Vacuum or the Mop.
C30_Witness ==
    /\ ticked
    /\ ~TrashLeft(grid)
    /\ InGrid(grid, DUSTY) \/ InGrid(grid, SOAKED)
    /\ current_trash > 0 \/ garbage_pickup_count > 0

\* A cell in a corner of grid g
Corner(g, p) == p[1] \in {0, shape0(g) - 1} /\ p[2] \in {0, shape1(g) - 1}

\* C31: in every tick of either controller each agent's position changes by at
\* most one unit move, and every agent is inside the grid bounds in every
\* reachable state. (A decentralized agent moves only in its own step of a tick,
\* so its move in that step is its move over the tick.)
C31_UnitMovesInBounds ==
    /\ [](\A a \in AgentType : InBounds(grid, pos[a]))
    /\ [][\A a \in AgentType : manhattan_distance(pos[a], pos'[a]) <= 1]_vars

\* C31 witness: the Garbage agent has bagged a second trash cell, so it has
\* moved, and it stands in a corner of the grid, where two of the four moves
\* would leave the grid.
C31_Witness ==
    /\ ticked
    /\ current_trash >= 2 \/ garbage_pickup_count >= 2
    /\ Corner(grid, pos[GARBAGE])
    /\ grid[pos[GARBAGE]] \in {DUSTY, SOAKED}

====
